---- MODULE Spec2Model ----
(***************************************************************************)
(* ecs-autoscaler: one run of main() reconciles the scalable target, the   *)
(* scaling policies and the CloudWatch alarms of one ECS service against   *)
(* the arguments of the run.  The model holds the live state of the two    *)
(* AWS services and, per running process, the position of main() and its   *)
(* local variables; every action is one remote call of main() together     *)
(* with the local computation that follows it up to the next call.         *)
(***************************************************************************)
EXTENDS Integers, Sequences, FiniteSets, TLC

VARIABLES
    args,          \* os.Args of the runs: numeric arguments and the two policy blobs
    liveTarget,    \* Application Auto Scaling: scalable targets of the resource id (0 or 1)
    livePolicies,  \* Application Auto Scaling: policy name -> policies of that name (0 or 1)
    liveAlarms,    \* CloudWatch: alarm name -> alarms of that name (0 or 1)
    proc,          \* process id -> position and locals of its main()
    failures       \* remote calls that have failed so far

vars == <<args, liveTarget, livePolicies, liveAlarms, proc, failures>>

-----------------------------------------------------------------------------
(* Bounds of the model *)

\* runs of main() started per process
MaxRuns == 2
\* remote calls that may fail in one behaviour
MaxFailures == 1

-----------------------------------------------------------------------------
(* Optional (nilable) values: a Go nil pointer is <<>>, a set pointer <<v>> *)

Nil == <<>>
Some(v) == <<v>>

-----------------------------------------------------------------------------
(* Names *)

cluster == "c"
service == "s"

resourceID == "service/" \o cluster \o "/" \o service

ScaleOutName == cluster \o "-" \o service \o "-scale-out"
ScaleInName == cluster \o "-" \o service \o "-scale-in"

AlarmNameOf(suffix) == cluster \o "-" \o service \o "-" \o suffix

DefaultAlarmNames ==
    << AlarmNameOf("cpu-high"), AlarmNameOf("cpu-low"),
       AlarmNameOf("mem-high"), AlarmNameOf("mem-low") >>

\* the ARN Application Auto Scaling gives a policy
PolicyARN(name) == "arn:" \o resourceID \o ":" \o name

-----------------------------------------------------------------------------
(* Desired-state model *)

\* the zero value of PolicyDef: what json.Unmarshal leaves for omitted fields
ZeroPolicyDef ==
    [ PolicyName |-> "", PolicyType |-> "", MetricName |-> "", MetricNamespace |-> "",
      AdjustmentType |-> "", Cooldown |-> Nil, MetricAggregationType |-> "",
      StepAdjustments |-> <<>>, TargetTrackingConfiguration |-> Nil,
      ScaleDirection |-> "" ]

StepAdj(lower, upper, adj) ==
    [ MetricIntervalLowerBound |-> lower, MetricIntervalUpperBound |-> upper,
      ScalingAdjustment |-> adj ]

\* the zero value of TargetTrackingConfig
ZeroTargetTrackingConfig ==
    [ TargetValue |-> 0, PredefinedMetricSpecification |-> "",
      CustomMetricSpecification |-> Nil, ScaleInCooldown |-> Nil,
      ScaleOutCooldown |-> Nil ]

\* the numeric defaults of main()
DefaultMinCap == 1
DefaultMaxCap == 10
DefaultOutCd == 300
DefaultInCd == 300
DefaultCPUOut == 75
DefaultCPUIn == 65
DefaultMemOut == 80
DefaultMemIn == 70

-----------------------------------------------------------------------------
(* The numeric arguments: os.Args[7..14] as text, and what main() parses of them *)

DecimalDigits == "0123456789"

IsDigit(ch) == \E k \in 1..Len(DecimalDigits) : SubSeq(DecimalDigits, k, k) = ch

DigitValue(ch) ==
    (CHOOSE k \in 1..Len(DecimalDigits) : SubSeq(DecimalDigits, k, k) = ch) - 1

AllDigits(s) == \A k \in 1..Len(s) : IsDigit(SubSeq(s, k, k))

\* the number a string of decimal digits denotes
RECURSIVE DecimalValue(_)
DecimalValue(s) ==
    IF Len(s) = 0 THEN 0
    ELSE 10 * DecimalValue(SubSeq(s, 1, Len(s) - 1)) + DigitValue(SubSeq(s, Len(s), Len(s)))

\* s without a leading sign
Unsigned(s) ==
    IF Len(s) > 0 /\ SubSeq(s, 1, 1) \in {"+", "-"} THEN SubSeq(s, 2, Len(s)) ELSE s

Signed(s, n) == IF Len(s) > 0 /\ SubSeq(s, 1, 1) = "-" THEN 0 - n ELSE n

\* strconv.Atoi: an optional sign and one or more decimal digits
Atoi(s) ==
    LET body == Unsigned(s) IN
    IF Len(body) > 0 /\ AllDigits(body)
    THEN [err |-> FALSE, val |-> Signed(s, DecimalValue(body))]
    ELSE [err |-> TRUE, val |-> 0]

\* the position of the first "." of s, Len(s) + 1 when there is none
DotAt(s) ==
    IF \E k \in 1..Len(s) : SubSeq(s, k, k) = "."
    THEN CHOOSE k \in 1..Len(s) :
            SubSeq(s, k, k) = "." /\ \A m \in 1..(k - 1) : SubSeq(s, m, m) # "."
    ELSE Len(s) + 1

\* strconv.ParseFloat(s, 64) on decimal text without exponent: an optional sign,
\* digits, and optionally a point and digits, with a digit on one side of the
\* point at least.  val is the value of texts whose fraction digits are all 0,
\* the only ones among the arguments drawn here.
ParseFloat(s) ==
    LET body == Unsigned(s)
        whole == SubSeq(body, 1, DotAt(body) - 1)
        frac == SubSeq(body, DotAt(body) + 1, Len(body))
    IN  IF /\ Len(whole) + Len(frac) > 0
           /\ AllDigits(whole) /\ AllDigits(frac)
        THEN [err |-> FALSE, val |-> Signed(s, DecimalValue(whole))]
        ELSE [err |-> TRUE, val |-> 0]

\* mutant: the default also for text that does not parse
getIntWithDefault_Lenient(arg, defaultValue) ==
    IF arg = "" \/ Atoi(arg).err THEN [err |-> FALSE, val |-> defaultValue]
    ELSE [err |-> FALSE, val |-> Atoi(arg).val]

getIntWithDefault(arg, defaultValue) ==
    IF arg = "" THEN [err |-> FALSE, val |-> defaultValue]
    ELSE IF Atoi(arg).err THEN [err |-> TRUE, val |-> 0]
    ELSE [err |-> FALSE, val |-> Atoi(arg).val]

getFloatWithDefault(arg, defaultValue) ==
    IF arg = "" THEN [err |-> FALSE, val |-> defaultValue]
    ELSE IF ParseFloat(arg).err THEN [err |-> TRUE, val |-> 0]
    ELSE [err |-> FALSE, val |-> ParseFloat(arg).val]

\* os.Args[7..14] with no value given
NoNumbers == << "", "", "", "", "", "", "", "" >>

\* what main() parses of os.Args[7..14], in the order of the arguments
ParsedNumbers(numeric) ==
    << getIntWithDefault(numeric[1], DefaultMinCap),
       getIntWithDefault(numeric[2], DefaultMaxCap),
       getIntWithDefault(numeric[3], DefaultOutCd),
       getIntWithDefault(numeric[4], DefaultInCd),
       getFloatWithDefault(numeric[5], DefaultCPUOut),
       getFloatWithDefault(numeric[6], DefaultCPUIn),
       getFloatWithDefault(numeric[7], DefaultMemOut),
       getFloatWithDefault(numeric[8], DefaultMemIn) >>

\* the arguments of the runs of a behaviour: the text of the numeric arguments and
\* the values main() holds after parsing it, how often the program is invoked and
\* with which values of os.Args[6], and the two policy blobs
Args(numeric, invocations, defaultBlob, customBlob) ==
    LET n == ParsedNumbers(numeric) IN
    [ numeric |-> numeric,
      minCap |-> n[1].val, maxCap |-> n[2].val,
      outCd |-> n[3].val, inCd |-> n[4].val,
      cpuOut |-> n[5].val, cpuIn |-> n[6].val,
      memOut |-> n[7].val, memIn |-> n[8].val,
      invocations |-> invocations,
      defaultPoliciesRaw |-> defaultBlob, policiesRaw |-> customBlob ]

\* a policy blob argument: the empty string, text that is no JSON array of
\* policies, or JSON text together with the list json.Unmarshal makes of it
EmptyBlob == [kind |-> "empty", val |-> <<>>]
MalformedBlob == [kind |-> "malformed", val |-> <<>>]
JsonBlob(list) == [kind |-> "json", val |-> list]

\* mutant: the error of json.Unmarshal dropped
Unmarshal_ErrorDropped(raw) == [err |-> FALSE, val |-> raw.val]

\* json.Unmarshal([]byte(raw), &policies)
Unmarshal(raw) ==
    IF raw.kind = "json" THEN [err |-> FALSE, val |-> raw.val]
    ELSE [err |-> TRUE, val |-> <<>>]

-----------------------------------------------------------------------------
(* PutScalingPolicyInput built from a PolicyDef *)

\* the orders in which ranging over a Go map can yield its entries
RECURSIVE DimSeqs(_)
DimSeqs(m) ==
    IF m = {} THEN { <<>> }
    ELSE UNION { { <<[Name |-> kv[1], Value |-> kv[2]]>> \o rest :
                     rest \in DimSeqs(m \ {kv}) } : kv \in m }

StepPolicyInput(p) ==
    [ PolicyName |-> p.PolicyName,
      PolicyType |-> "StepScaling",
      StepScalingPolicyConfiguration |-> Some(
        [ AdjustmentType |-> p.AdjustmentType,
          Cooldown |-> p.Cooldown,
          MetricAggregationType |-> p.MetricAggregationType,
          StepAdjustments |->
            [ i \in DOMAIN p.StepAdjustments |->
                StepAdj(p.StepAdjustments[i].MetricIntervalLowerBound,
                        p.StepAdjustments[i].MetricIntervalUpperBound,
                        p.StepAdjustments[i].ScalingAdjustment) ] ]),
      TargetTrackingScalingPolicyConfiguration |-> Nil ]

\* dims: the order the range over cm.Dimensions produced
TargetTrackingPolicyInput(p, dims) ==
    LET tt == p.TargetTrackingConfiguration[1]
        pre == tt.PredefinedMetricSpecification
        cm == tt.CustomMetricSpecification
    IN  [ PolicyName |-> p.PolicyName,
          PolicyType |-> "TargetTrackingScaling",
          StepScalingPolicyConfiguration |-> Nil,
          TargetTrackingScalingPolicyConfiguration |-> Some(
            [ TargetValue |-> tt.TargetValue,
              PredefinedMetricSpecification |->
                  IF pre # "" THEN Some(pre) ELSE Nil,
              CustomizedMetricSpecification |->
                  IF pre = "" /\ cm # Nil
                  THEN Some([ MetricName |-> cm[1].MetricName,
                              Namespace |-> cm[1].Namespace,
                              Dimensions |-> dims,
                              Statistic |-> cm[1].Statistic ])
                  ELSE Nil,
              ScaleInCooldown |-> tt.ScaleInCooldown,
              ScaleOutCooldown |-> tt.ScaleOutCooldown ]) ]

\* the dimension map a policy's range statement iterates (empty when there is none)
DimsOf(p) ==
    IF p.PolicyType = "TargetTrackingScaling"
       /\ p.TargetTrackingConfiguration # Nil
       /\ p.TargetTrackingConfiguration[1].PredefinedMetricSpecification = ""
       /\ p.TargetTrackingConfiguration[1].CustomMetricSpecification # Nil
    THEN p.TargetTrackingConfiguration[1].CustomMetricSpecification[1].Dimensions
    ELSE {}

\* the built-in step policies: info = <<name, adjust, cd>>
DefaultPolicyInput(name, adjust, cd) ==
    [ PolicyName |-> name,
      PolicyType |-> "StepScaling",
      StepScalingPolicyConfiguration |-> Some(
        [ AdjustmentType |-> "ChangeInCapacity",
          Cooldown |-> Some(cd),
          MetricAggregationType |-> "Maximum",
          StepAdjustments |-> << StepAdj(Some(0), Nil, adjust) >> ]),
      TargetTrackingScalingPolicyConfiguration |-> Nil ]

DefaultInfos ==
    << <<ScaleOutName, 1, args.outCd>>, <<ScaleInName, -1, args.inCd>> >>

-----------------------------------------------------------------------------
(* State comparators; resp is the list a successful describe call returned *)

\* mutant: the capacities compared crosswise
checkScalableTarget_Crossed(resp, minCap, maxCap) ==
    IF Len(resp) = 0 THEN FALSE
    ELSE resp[1].MinCapacity = maxCap /\ resp[1].MaxCapacity = minCap

\* mutant: existence taken for a match
checkScalableTarget_ExistsOnly(resp, minCap, maxCap) == Len(resp) > 0

\* mutant: the maximum capacity left out of the comparison
checkScalableTarget_MinOnly(resp, minCap, maxCap) ==
    IF Len(resp) = 0 THEN FALSE
    ELSE resp[1].MinCapacity = minCap

checkScalableTarget(resp, minCap, maxCap) ==
    IF Len(resp) = 0 THEN FALSE
    ELSE resp[1].MinCapacity = minCap /\ resp[1].MaxCapacity = maxCap

\* mutant: an empty answer taken for a target
scalableTargetExists_OffByOne(resp) == Len(resp) >= 0

scalableTargetExists(resp) == Len(resp) > 0

checkScalingPolicy(resp) == Len(resp) > 0

\* mutant: the alarm never found
checkCloudWatchAlarm_Never(resp) == FALSE

checkCloudWatchAlarm(resp) == Len(resp) > 0

\* existingDims[name] of a Go map built from a dimension list: the last value
\* stored under the name, the empty string when the name is absent
DimLookup(dims, name) ==
    LET hits == { i \in DOMAIN dims : dims[i].Name = name }
    IN  IF hits = {} THEN ""
        ELSE dims[CHOOSE i \in hits : \A j \in hits : j <= i].Value

\* mutant: the step adjustments compared as sets
StepAdjustmentsEqual_AnyOrder(e, d) ==
    /\ Len(e) = Len(d)
    /\ { e[i] : i \in DOMAIN e } = { d[i] : i \in DOMAIN d }

StepAdjustmentsEqual(e, d) ==
    /\ Len(e) = Len(d)
    /\ \A i \in DOMAIN e :
        /\ (e[i].MetricIntervalLowerBound = Nil) = (d[i].MetricIntervalLowerBound = Nil)
        /\ (e[i].MetricIntervalUpperBound = Nil) = (d[i].MetricIntervalUpperBound = Nil)
        /\ ~ ( e[i].MetricIntervalLowerBound # Nil /\ d[i].MetricIntervalLowerBound # Nil
               /\ e[i].MetricIntervalLowerBound[1] # d[i].MetricIntervalLowerBound[1] )
        /\ ~ ( e[i].MetricIntervalUpperBound # Nil /\ d[i].MetricIntervalUpperBound # Nil
               /\ e[i].MetricIntervalUpperBound[1] # d[i].MetricIntervalUpperBound[1] )
        /\ e[i].ScalingAdjustment = d[i].ScalingAdjustment

\* mutant: the pointers compared instead of the values they point to
NilAwareEqual_Pointers(a, b) == a = Nil /\ b = Nil

NilAwareEqual(a, b) ==
    /\ (a = Nil) = (b = Nil)
    /\ ~ (a # Nil /\ b # Nil /\ a[1] # b[1])

StepConfigEqual(e, d) ==
    /\ e.AdjustmentType = d.AdjustmentType
    /\ e.MetricAggregationType = d.MetricAggregationType
    /\ NilAwareEqual(e.Cooldown, d.Cooldown)
    /\ StepAdjustmentsEqual(e.StepAdjustments, d.StepAdjustments)

\* mutant: the numbers of dimensions not compared
CustomMetricEqual_NoLength(e, d) ==
    /\ e.MetricName = d.MetricName
    /\ e.Namespace = d.Namespace
    /\ e.Statistic = d.Statistic
    /\ \A i \in DOMAIN d.Dimensions :
         DimLookup(e.Dimensions, d.Dimensions[i].Name) = d.Dimensions[i].Value

CustomMetricEqual(e, d) ==
    /\ e.MetricName = d.MetricName
    /\ e.Namespace = d.Namespace
    /\ e.Statistic = d.Statistic
    /\ Len(e.Dimensions) = Len(d.Dimensions)
    /\ \A i \in DOMAIN d.Dimensions :
         DimLookup(e.Dimensions, d.Dimensions[i].Name) = d.Dimensions[i].Value

TargetTrackingConfigEqual(e, d) ==
    /\ e.TargetValue = d.TargetValue
    /\ NilAwareEqual(e.ScaleInCooldown, d.ScaleInCooldown)
    /\ NilAwareEqual(e.ScaleOutCooldown, d.ScaleOutCooldown)
    /\ NilAwareEqual(e.PredefinedMetricSpecification, d.PredefinedMetricSpecification)
    /\ (e.CustomizedMetricSpecification = Nil) = (d.CustomizedMetricSpecification = Nil)
    /\ ( (e.CustomizedMetricSpecification # Nil /\ d.CustomizedMetricSpecification # Nil)
         => CustomMetricEqual(e.CustomizedMetricSpecification[1],
                              d.CustomizedMetricSpecification[1]) )

compareScalingPolicy(resp, desired) ==
    IF Len(resp) = 0 THEN FALSE
    ELSE LET existing == resp[1] IN
         IF existing.PolicyType # desired.PolicyType THEN FALSE
         ELSE IF desired.PolicyType = "StepScaling"
         THEN /\ existing.StepScalingPolicyConfiguration # Nil
              /\ desired.StepScalingPolicyConfiguration # Nil
              /\ StepConfigEqual(existing.StepScalingPolicyConfiguration[1],
                                 desired.StepScalingPolicyConfiguration[1])
         ELSE IF desired.PolicyType = "TargetTrackingScaling"
         THEN /\ existing.TargetTrackingScalingPolicyConfiguration # Nil
              /\ desired.TargetTrackingScalingPolicyConfiguration # Nil
              /\ TargetTrackingConfigEqual(
                    existing.TargetTrackingScalingPolicyConfiguration[1],
                    desired.TargetTrackingScalingPolicyConfiguration[1])
         ELSE TRUE

\* mutant: an item is dropped only when it repeats the item before it
RECURSIVE deduplicate_Adjacent(_)
deduplicate_Adjacent(slice) ==
    IF slice = <<>> THEN <<>>
    ELSE LET front == deduplicate_Adjacent(SubSeq(slice, 1, Len(slice) - 1))
             item == slice[Len(slice)]
         IN  IF Len(slice) > 1 /\ slice[Len(slice) - 1] = item THEN front
             ELSE Append(front, item)

RECURSIVE deduplicate(_)
deduplicate(slice) ==
    IF slice = <<>> THEN <<>>
    ELSE LET front == deduplicate(SubSeq(slice, 1, Len(slice) - 1))
             item == slice[Len(slice)]
         IN  IF \E i \in DOMAIN front : front[i] = item THEN front
             ELSE Append(front, item)

-----------------------------------------------------------------------------
(* The remote services *)

\* the ScalingPolicy a describe call returns once input has been put
LivePolicy(input) ==
    [ PolicyName |-> input.PolicyName,
      PolicyType |-> input.PolicyType,
      PolicyARN |-> PolicyARN(input.PolicyName),
      StepScalingPolicyConfiguration |-> input.StepScalingPolicyConfiguration,
      TargetTrackingScalingPolicyConfiguration |->
          input.TargetTrackingScalingPolicyConfiguration ]

\* cw.PutMetricAlarmInput as main() fills it
MetricAlarmInput(name, desc, namespace, metric, period, threshold, comp, arn) ==
    [ AlarmName |-> name, AlarmDescription |-> desc, Namespace |-> namespace,
      MetricName |-> metric, Statistic |-> "Average", Period |-> period,
      EvaluationPeriods |-> 2, Threshold |-> threshold, ComparisonOperator |-> comp,
      Dimensions |-> << [Name |-> "ClusterName", Value |-> cluster],
                        [Name |-> "ServiceName", Value |-> service] >>,
      AlarmActions |-> << arn >> ]

LiveTarget(minCap, maxCap) == [MinCapacity |-> minCap, MaxCapacity |-> maxCap]

\* the operations of the two services that change live state
WriteOps ==
    { "RegisterScalableTarget", "PutScalingPolicy", "PutMetricAlarm",
      "DeleteAlarms", "DeleteScalingPolicy", "DeregisterScalableTarget" }

\* whether the next remote call may fail
Outcomes == IF failures < MaxFailures THEN {TRUE, FALSE} ELSE {TRUE}

-----------------------------------------------------------------------------
(* The inputs the runs are checked on *)

PA ==
    [ ZeroPolicyDef EXCEPT
        !.PolicyName = "p1", !.PolicyType = "StepScaling",
        !.MetricName = "CPUUtilization", !.MetricNamespace = "AWS/ECS",
        !.AdjustmentType = "ChangeInCapacity", !.Cooldown = Some(60),
        !.MetricAggregationType = "Maximum",
        !.StepAdjustments = << StepAdj(Some(0), Nil, 1) >>,
        !.ScaleDirection = "out" ]

\* the name of PA with another step adjustment
PB == [ PA EXCEPT !.StepAdjustments = << StepAdj(Some(0), Nil, 2) >> ]

PT ==
    [ ZeroPolicyDef EXCEPT
        !.PolicyName = "p2", !.PolicyType = "TargetTrackingScaling",
        !.TargetTrackingConfiguration = Some(
            [ ZeroTargetTrackingConfig EXCEPT
                !.TargetValue = 50,
                !.PredefinedMetricSpecification = "ECSServiceAverageCPUUtilization" ]) ]

PU == [ ZeroPolicyDef EXCEPT !.PolicyName = "p3", !.PolicyType = "Bogus" ]

PD ==
    [ ZeroPolicyDef EXCEPT
        !.PolicyName = "d1", !.PolicyType = "StepScaling",
        !.AdjustmentType = "ChangeInCapacity", !.Cooldown = Some(120),
        !.MetricAggregationType = "Average",
        !.StepAdjustments = << StepAdj(Nil, Some(0), -1) >> ]

CustomBlobs ==
    { EmptyBlob, MalformedBlob, JsonBlob(<<>>),
      JsonBlob(<<PA>>), JsonBlob(<<PB>>), JsonBlob(<<PT, PA>>),
      JsonBlob(<<PA, PU>>), JsonBlob(<<PU>>), JsonBlob(<<PA, PB>>),
      JsonBlob(<<PA, PA>>), JsonBlob(<<PA, PT>>) }

DefaultBlobs == { EmptyBlob, MalformedBlob, JsonBlob(<<PD>>) }

\* <<custom blob, default blob>> of a behaviour: every custom blob with no default
\* blob, and every default blob with an empty, a malformed, an empty-list and a
\* one-policy custom blob
BlobPairs ==
    { <<c, EmptyBlob>> : c \in CustomBlobs }
      \cup ( { EmptyBlob, MalformedBlob, JsonBlob(<<>>), JsonBlob(<<PA>>) }
               \X DefaultBlobs )

\* step policies with a metric, of every scale_direction, with and without
\* cooldown, under names with and without "in"
DirectionNames == { "p1", "svc_scale_in", "SVC_SCALE_IN" }

DirectionPolicies ==
    { [ ZeroPolicyDef EXCEPT
          !.PolicyName = n, !.PolicyType = "StepScaling",
          !.MetricName = m, !.MetricNamespace = "AWS/ECS",
          !.Cooldown = cd,
          !.StepAdjustments = << StepAdj(Nil, Nil, -1) >>,
          !.ScaleDirection = dir ] :
        n \in DirectionNames, m \in {"CPUUtilization", "MemoryUtilization"},
        cd \in {Nil, Some(60)}, dir \in {"in", "out", "", "up"} }

DirectionBlobs == { JsonBlob(<< d >>) : d \in DirectionPolicies }

\* <<target-cpu-utilization-in, target-cpu-utilization-out>>: the defaults, and the
\* values of TestCustomPolicyThresholdSelection
ThresholdArgs == { << "", "" >>, << "20", "50" >> }

BlobNames(blobs) ==
    UNION { { b.val[i].PolicyName : i \in DOMAIN b.val } : b \in blobs }

AllPolicyNames ==
    {ScaleOutName, ScaleInName}
      \cup BlobNames(CustomBlobs \cup DefaultBlobs \cup DirectionBlobs)

AllAlarmNames ==
    { DefaultAlarmNames[i] : i \in DOMAIN DefaultAlarmNames }
      \cup { AlarmNameOf(n) : n \in AllPolicyNames }

\* an alarm somebody created before the first run
OldAlarm(name) ==
    MetricAlarmInput(name, "old alarm", "AWS/ECS", "CPUUtilization", 30, 99,
                     "GreaterThanOrEqualToThreshold", "arn:old")

\* the policies of a name that may be live before the first run
InitPoliciesOf(n) ==
    IF n = "p1" THEN { <<>>, << LivePolicy(StepPolicyInput(PA)) >> }
    ELSE IF n = "p2" THEN { <<>>, << LivePolicy(TargetTrackingPolicyInput(PT, <<>>)) >> }
    ELSE IF n = ScaleOutName
    THEN { <<>>, << LivePolicy(DefaultPolicyInput(ScaleOutName, 1, 60)) >> }
    ELSE { <<>> }

InitAlarmsOf(n) ==
    IF n \in { AlarmNameOf("p1"), AlarmNameOf("cpu-high") }
    THEN { <<>>, << OldAlarm(n) >> }
    ELSE { <<>> }

InitTargets == { <<>>, << LiveTarget(1, 10) >>, << LiveTarget(2, 5) >> }

EnabledArgs == { "true", "false" }

\* the invocations of a behaviour: at most runs of them, each with one of the
\* values enabled for os.Args[6]
Invocations == [ enabled |-> EnabledArgs, runs |-> MaxRuns ]

Procs == { 1 }

-----------------------------------------------------------------------------
(* A process: the position of main() and its locals *)

IdleProc ==
    [ pc |-> "idle",            \* the remote call main() issues next
      run |-> 0,                \* runs started
      enabled |-> "",           \* os.Args[6]
      policies |-> <<>>,        \* the parsed policy list
      idx |-> 0,                \* position of the loop over policies
      k |-> 0,                  \* position of the other loops
      policyInput |-> Nil,
      policyExists |-> FALSE,
      arns |-> <<>>,            \* policy ARNs fetched for the alarms
      alarmInput |-> Nil,
      alarmNames |-> <<>>,
      existingAlarms |-> <<>>,
      policyNames |-> <<>>,
      existingPolicies |-> <<>>,
      calls |-> <<>>,           \* remote calls of the current run, in order
      exit |-> "none",          \* "running", or how the run ended: "ok" (exit 0),
                                \* "fatal" (os.Exit(1)), "panic" (nil dereference)
      hist |-> <<>> ]           \* the runs that ended before the current one

\* one remote call: fn is the function of main.go that issued it, found the number
\* of results the service returned to a describe call, res what the function made
\* of the answer, arg the payload of a write (as a list), idx the position of the
\* loop over policies (0 outside it)
\* mutant: the function returns what it made of the answer also when the call failed
Call_ResultOnError(fn, op, name, ok, found, res, arg, idx) ==
    [ fn |-> fn, op |-> op, name |-> name, ok |-> ok,
      found |-> found, res |-> res, arg |-> arg, idx |-> idx ]

Call(fn, op, name, ok, found, res, arg, idx) ==
    [ fn |-> fn, op |-> op, name |-> name, ok |-> ok,
      found |-> IF ok THEN found ELSE 0, res |-> ok /\ res,
      arg |-> arg, idx |-> idx ]

Log(p, c) == [p EXCEPT !.calls = Append(@, c)]

Exit(p, code) == [p EXCEPT !.pc = "exited", !.exit = code]

CallFailed(p) == \E j \in DOMAIN p.calls : ~p.calls[j].ok

Writes(p) == SelectSeq(p.calls, LAMBDA c : c.op \in WriteOps)

\* what a later run keeps of a finished one
Summary(p) ==
    [ enabled |-> p.enabled, exit |-> p.exit, callFailed |-> CallFailed(p),
      writes |-> Len(Writes(p)) ]

\* mutant: the default blob first
SelectedRaw_DefaultFirst ==
    IF args.defaultPoliciesRaw.kind # "empty" THEN args.defaultPoliciesRaw
    ELSE args.policiesRaw

\* the blob main() parses: the custom one when it is not empty, else the default one
SelectedRaw ==
    IF args.policiesRaw.kind # "empty" THEN args.policiesRaw
    ELSE args.defaultPoliciesRaw

\* lines 555-569 and 441-455: var policies []PolicyDef, filled from the selected blob
ParsePolicies ==
    IF SelectedRaw.kind = "empty" THEN [err |-> FALSE, val |-> <<>>]
    ELSE Unmarshal(SelectedRaw)

HasMetric(d) == d.MetricName # "" /\ d.MetricNamespace # ""

\* mutant: the built-in template follows the loop also when the list has entries
PolicyLoop_AlwaysTemplate(p) ==
    IF p.idx > Len(p.policies)
    THEN [p EXCEPT !.pc = "defCompare", !.k = 1]
    ELSE LET d == p.policies[p.idx] IN
         IF d.PolicyType = "StepScaling" THEN [p EXCEPT !.pc = "compare"]
         ELSE IF d.PolicyType = "TargetTrackingScaling"
         THEN IF d.TargetTrackingConfiguration = Nil THEN Exit(p, "panic")
              ELSE [p EXCEPT !.pc = "compare"]
         ELSE Exit(p, "fatal")

\* top of the loop over policies (p.idx is the position reached): the type switch,
\* and what follows the loop
PolicyLoop(p) ==
    IF p.idx > Len(p.policies)
    THEN IF Len(p.policies) > 0 THEN Exit(p, "ok")
         ELSE [p EXCEPT !.pc = "defCompare", !.k = 1]
    ELSE LET d == p.policies[p.idx] IN
         IF d.PolicyType = "StepScaling" THEN [p EXCEPT !.pc = "compare"]
         ELSE IF d.PolicyType = "TargetTrackingScaling"
         THEN IF d.TargetTrackingConfiguration = Nil THEN Exit(p, "panic")
              ELSE [p EXCEPT !.pc = "compare"]
         ELSE Exit(p, "fatal")

\* after the scalable target: parse the blob, enter the loop
EnterPolicies(p) ==
    IF ParsePolicies.err THEN Exit(p, "fatal")
    ELSE PolicyLoop([p EXCEPT !.policies = ParsePolicies.val, !.idx = 1])

NextPolicy(p) == PolicyLoop([p EXCEPT !.idx = @ + 1])

\* mutant: an alarm for every step policy with a metric, new or not
AlarmGate_AnyPolicy(p) ==
    LET d == p.policies[p.idx] IN
    IF d.PolicyType = "StepScaling" /\ HasMetric(d)
    THEN [p EXCEPT !.pc = "describeArn"]
    ELSE NextPolicy(p)

\* after the policy is known to match or has been put: the alarm gate
AlarmGate(p) ==
    LET d == p.policies[p.idx] IN
    IF d.PolicyType = "StepScaling" /\ HasMetric(d) /\ ~p.policyExists
    THEN [p EXCEPT !.pc = "describeArn"]
    ELSE NextPolicy(p)

BuildPolicyInput(d, dims) ==
    IF d.PolicyType = "StepScaling" THEN StepPolicyInput(d)
    ELSE TargetTrackingPolicyInput(d, dims)

\* strings.Contains
Contains(s, substr) ==
    \E k \in 1..(Len(s) - Len(substr) + 1) :
        SubSeq(s, k, k + Len(substr) - 1) = substr

UpperCase == "ABCDEFGHIJKLMNOPQRSTUVWXYZ"
LowerCase == "abcdefghijklmnopqrstuvwxyz"

\* strings.ToLower
RECURSIVE ToLower(_)
ToLower(s) ==
    IF Len(s) = 0 THEN s
    ELSE LET c == SubSeq(s, 1, 1)
             lc == IF \E k \in 1..Len(UpperCase) : SubSeq(UpperCase, k, k) = c
                   THEN LET k == CHOOSE k \in 1..Len(UpperCase) :
                                     SubSeq(UpperCase, k, k) = c
                        IN  SubSeq(LowerCase, k, k)
                   ELSE c
         IN  lc \o ToLower(SubSeq(s, 2, Len(s)))

\* mutant: with no scale_direction the threshold follows the policy name
ThresholdOf_NameFallback(d) ==
    IF d.ScaleDirection = "in" THEN args.cpuIn
    ELSE IF d.ScaleDirection = "out" THEN args.cpuOut
    ELSE IF Contains(ToLower(d.PolicyName), "in") THEN args.cpuIn
    ELSE args.cpuOut

\* mutant: an empty scale_direction selects the in-threshold
ThresholdOf_InWhenEmpty(d) ==
    IF d.ScaleDirection \in {"in", ""} THEN args.cpuIn ELSE args.cpuOut

\* lines 689-701
ThresholdOf(d) == IF d.ScaleDirection = "in" THEN args.cpuIn ELSE args.cpuOut

CompOpOf(d) ==
    IF d.ScaleDirection = "in" THEN "LessThanOrEqualToThreshold"
    ELSE "GreaterThanOrEqualToThreshold"

\* mutant: the alarm acts on the built-in scale-out policy
CustomAlarmInput_UpPolicy(d, arn) ==
    MetricAlarmInput(AlarmNameOf(d.PolicyName), "Scale based on " \o d.MetricName,
                     d.MetricNamespace, d.MetricName, d.Cooldown[1],
                     ThresholdOf(d), CompOpOf(d), PolicyARN(ScaleOutName))

CustomAlarmInput(d, arn) ==
    MetricAlarmInput(AlarmNameOf(d.PolicyName), "Scale based on " \o d.MetricName,
                     d.MetricNamespace, d.MetricName, d.Cooldown[1],
                     ThresholdOf(d), CompOpOf(d), arn)

-----------------------------------------------------------------------------
(* Initial states *)

Init ==
    /\ \E cd \in BlobPairs : \E c \in {cd[1]}, d \in {cd[2]} :
          args = Args(NoNumbers, Invocations, d, c)
    /\ liveTarget \in InitTargets
    /\ \E live \in SUBSET { n \in AllPolicyNames : InitPoliciesOf(n) # { <<>> } } :
          livePolicies =
             [ n \in AllPolicyNames |->
                 IF n \notin live THEN <<>>
                 ELSE CHOOSE x \in InitPoliciesOf(n) : x # <<>> ]
    /\ \E live \in SUBSET { n \in AllAlarmNames : InitAlarmsOf(n) # { <<>> } } :
          liveAlarms =
             [ n \in AllAlarmNames |->
                 IF n \notin live THEN <<>>
                 ELSE CHOOSE x \in InitAlarmsOf(n) : x # <<>> ]
    /\ proc = [ i \in Procs |-> IdleProc ]
    /\ failures = 0

-----------------------------------------------------------------------------
(* Actions.  i is the process, ok whether the remote call succeeds. *)

Step(i, p, ok) ==
    /\ proc' = [proc EXCEPT ![i] = p]
    /\ failures' = IF ok THEN failures ELSE failures + 1

\* one of the numeric arguments does not parse: main() exits (lines 338-373)
ArgsError ==
    \E k \in DOMAIN args.numeric : ParsedNumbers(args.numeric)[k].err

\* mutant: the argument is compared without regard to case
EnabledOf_AnyCase(arg) == arg \in { "true", "True", "TRUE" }

\* line 336: enabled := os.Args[6] == "true"
EnabledOf(arg) == arg = "true"

\* main() starts: lines 324-404 and 426-428
StartRun(i) ==
    /\ proc[i].pc \in {"idle", "exited"}
    /\ proc[i].run < args.invocations.runs
    /\ \E e \in args.invocations.enabled :
         proc' = [proc EXCEPT ![i] =
                    [ IdleProc EXCEPT
                        !.pc = IF ArgsError THEN "exited"
                               ELSE IF EnabledOf(e) THEN "checkTarget"
                               ELSE "targetExists",
                        !.run = proc[i].run + 1,
                        !.enabled = e,
                        !.exit = IF ArgsError THEN "fatal" ELSE "running",
                        !.hist = IF proc[i].pc = "idle" THEN proc[i].hist
                                 ELSE Append(proc[i].hist, Summary(proc[i])) ]]
    /\ UNCHANGED <<args, liveTarget, livePolicies, liveAlarms, failures>>

\* lines 405-425: checkScalableTarget
EnableCheckTarget(i) ==
    /\ proc[i].pc = "checkTarget"
    /\ \E ok \in Outcomes :
         LET exists == checkScalableTarget(liveTarget, args.minCap, args.maxCap)
             p == Log(proc[i], Call("checkScalableTarget", "DescribeScalableTargets",
                                    resourceID, ok, Len(liveTarget), exists, <<>>, 0))
         IN  Step(i, IF ~ok THEN Exit(p, "fatal")
                     ELSE IF ~exists THEN [p EXCEPT !.pc = "register"]
                     ELSE EnterPolicies(p), ok)
    /\ UNCHANGED <<args, liveTarget, livePolicies, liveAlarms>>

\* mutant: registering a target that is already registered is an error
RegisterTarget_CreateOnly(i) ==
    /\ proc[i].pc = "register"
    /\ \E o \in Outcomes :
         LET ok == o /\ liveTarget = <<>>
             t == LiveTarget(args.minCap, args.maxCap)
             p == Log(proc[i], Call("main", "RegisterScalableTarget",
                                    resourceID, ok, 0, TRUE, <<t>>, 0))
         IN  /\ Step(i, IF ok THEN EnterPolicies(p) ELSE Exit(p, "fatal"), ok)
             /\ liveTarget' = IF ok THEN <<t>> ELSE liveTarget
    /\ UNCHANGED <<args, livePolicies, liveAlarms>>

\* lines 411-422: RegisterScalableTarget
RegisterTarget(i) ==
    /\ proc[i].pc = "register"
    /\ \E ok \in Outcomes :
         LET t == LiveTarget(args.minCap, args.maxCap)
             p == Log(proc[i], Call("main", "RegisterScalableTarget",
                                    resourceID, ok, 0, TRUE, <<t>>, 0))
         IN  /\ Step(i, IF ok THEN EnterPolicies(p) ELSE Exit(p, "fatal"), ok)
             /\ liveTarget' = IF ok THEN <<t>> ELSE liveTarget
    /\ UNCHANGED <<args, livePolicies, liveAlarms>>

\* lines 577-644: build policyInput, compareScalingPolicy
ComparePolicy(i) ==
    /\ proc[i].pc = "compare"
    /\ LET d == proc[i].policies[proc[i].idx] IN
       \E ok \in Outcomes, dims \in DimSeqs(DimsOf(d)) :
         LET input == BuildPolicyInput(d, dims)
             matches == compareScalingPolicy(livePolicies[d.PolicyName], input)
             p == Log([proc[i] EXCEPT !.policyInput = Some(input), !.policyExists = TRUE],
                      Call("compareScalingPolicy", "DescribeScalingPolicies",
                           d.PolicyName, ok, Len(livePolicies[d.PolicyName]), matches,
                           <<>>, proc[i].idx))
         IN  Step(i, IF ~ok THEN Exit(p, "fatal")
                     ELSE IF ~matches THEN [p EXCEPT !.pc = "checkExists"]
                     ELSE AlarmGate(p), ok)
    /\ UNCHANGED <<args, liveTarget, livePolicies, liveAlarms>>

\* lines 648-654: checkScalingPolicy
CheckPolicyExists(i) ==
    /\ proc[i].pc = "checkExists"
    /\ LET d == proc[i].policies[proc[i].idx] IN
       \E ok \in Outcomes :
         LET exists == checkScalingPolicy(livePolicies[d.PolicyName])
             p == Log(proc[i], Call("checkScalingPolicy", "DescribeScalingPolicies",
                                    d.PolicyName, ok, Len(livePolicies[d.PolicyName]),
                                    exists, <<>>, proc[i].idx))
         IN  Step(i, IF ~ok THEN Exit(p, "fatal")
                     ELSE [p EXCEPT !.policyExists = exists, !.pc = "put"], ok)
    /\ UNCHANGED <<args, liveTarget, livePolicies, liveAlarms>>

\* lines 656-665: PutScalingPolicy
PutPolicy(i) ==
    /\ proc[i].pc = "put"
    /\ LET input == proc[i].policyInput[1] IN
       \E ok \in Outcomes :
         LET p == Log(proc[i], Call("main", "PutScalingPolicy", input.PolicyName,
                                    ok, 0, TRUE, <<input>>, proc[i].idx))
         IN  /\ Step(i, IF ok THEN AlarmGate(p) ELSE Exit(p, "fatal"), ok)
             /\ livePolicies' =
                  IF ok THEN [livePolicies EXCEPT ![input.PolicyName] = <<LivePolicy(input)>>]
                  ELSE livePolicies
    /\ UNCHANGED <<args, liveTarget, liveAlarms>>

\* lines 675-718: fetch the policy ARN, build alarmInput
DescribeForAlarm(i) ==
    /\ proc[i].pc = "describeArn"
    /\ LET d == proc[i].policies[proc[i].idx]
           resp == livePolicies[d.PolicyName]
       IN
       \E ok \in Outcomes :
         LET p == Log(proc[i], Call("main", "DescribeScalingPolicies", d.PolicyName,
                                    ok, Len(resp), Len(resp) > 0, <<>>, proc[i].idx))
         IN  Step(i, IF ~ok \/ Len(resp) = 0 THEN Exit(p, "fatal")
                     ELSE IF d.Cooldown = Nil THEN Exit(p, "panic")
                     ELSE [p EXCEPT !.arns = <<resp[1].PolicyARN>>,
                                    !.alarmInput =
                                        Some(CustomAlarmInput(d, resp[1].PolicyARN)),
                                    !.pc = "checkAlarm"], ok)
    /\ UNCHANGED <<args, liveTarget, livePolicies, liveAlarms>>

\* lines 720-726: checkCloudWatchAlarm
CheckAlarm(i) ==
    /\ proc[i].pc = "checkAlarm"
    /\ LET name == proc[i].alarmInput[1].AlarmName IN
       \E ok \in Outcomes :
         LET exists == checkCloudWatchAlarm(liveAlarms[name])
             p == Log(proc[i], Call("checkCloudWatchAlarm", "DescribeAlarms", name,
                                    ok, Len(liveAlarms[name]), exists, <<>>,
                                    proc[i].idx))
         IN  Step(i, IF ~ok THEN Exit(p, "fatal")
                     ELSE IF ~exists THEN [p EXCEPT !.pc = "putAlarm"]
                     ELSE NextPolicy(p), ok)
    /\ UNCHANGED <<args, liveTarget, livePolicies, liveAlarms>>

\* mutant: the scalable target is registered once more after an alarm was put
PutAlarm_ThenRegister(i) ==
    /\ proc[i].pc = "putAlarm"
    /\ LET input == proc[i].alarmInput[1] IN
       \E ok \in Outcomes :
         LET p == Log(proc[i], Call("main", "PutMetricAlarm", input.AlarmName,
                                    ok, 0, TRUE, <<input>>, proc[i].idx))
         IN  /\ Step(i, IF ok THEN [p EXCEPT !.pc = "register"] ELSE Exit(p, "fatal"), ok)
             /\ liveAlarms' =
                  IF ok THEN [liveAlarms EXCEPT ![input.AlarmName] = <<input>>]
                  ELSE liveAlarms
    /\ UNCHANGED <<args, liveTarget, livePolicies>>

\* lines 728-734: PutMetricAlarm
PutAlarm(i) ==
    /\ proc[i].pc = "putAlarm"
    /\ LET input == proc[i].alarmInput[1] IN
       \E ok \in Outcomes :
         LET p == Log(proc[i], Call("main", "PutMetricAlarm", input.AlarmName,
                                    ok, 0, TRUE, <<input>>, proc[i].idx))
         IN  /\ Step(i, IF ok THEN NextPolicy(p) ELSE Exit(p, "fatal"), ok)
             /\ liveAlarms' =
                  IF ok THEN [liveAlarms EXCEPT ![input.AlarmName] = <<input>>]
                  ELSE liveAlarms
    /\ UNCHANGED <<args, liveTarget, livePolicies>>

-----------------------------------------------------------------------------
(* The built-in policies and alarms: lines 747-899 *)

\* after built-in policy k: the next one, or the two describe calls
NextDefaultPolicy(p) ==
    IF p.k < Len(DefaultInfos) THEN [p EXCEPT !.pc = "defCompare", !.k = @ + 1]
    ELSE [p EXCEPT !.pc = "describeUp"]

\* lines 758-777: compareScalingPolicy on a built-in policy
DefaultCompare(i) ==
    /\ proc[i].pc = "defCompare"
    /\ LET info == DefaultInfos[proc[i].k]
           input == DefaultPolicyInput(info[1], info[2], info[3])
       IN
       \E ok \in Outcomes :
         LET matches == compareScalingPolicy(livePolicies[info[1]], input)
             p == Log([proc[i] EXCEPT !.policyInput = Some(input)],
                      Call("compareScalingPolicy", "DescribeScalingPolicies", info[1],
                           ok, Len(livePolicies[info[1]]), matches, <<>>, 0))
         IN  Step(i, IF ~ok THEN Exit(p, "fatal")
                     ELSE IF ~matches THEN [p EXCEPT !.pc = "defPut"]
                     ELSE NextDefaultPolicy(p), ok)
    /\ UNCHANGED <<args, liveTarget, livePolicies, liveAlarms>>

\* lines 779-784: PutScalingPolicy of a built-in policy
DefaultPut(i) ==
    /\ proc[i].pc = "defPut"
    /\ LET input == proc[i].policyInput[1] IN
       \E ok \in Outcomes :
         LET p == Log(proc[i], Call("main", "PutScalingPolicy", input.PolicyName,
                                    ok, 0, TRUE, <<input>>, 0))
         IN  /\ Step(i, IF ok THEN NextDefaultPolicy(p) ELSE Exit(p, "fatal"), ok)
             /\ livePolicies' =
                  IF ok THEN [livePolicies EXCEPT ![input.PolicyName] = <<LivePolicy(input)>>]
                  ELSE livePolicies
    /\ UNCHANGED <<args, liveTarget, liveAlarms>>

\* lines 791-800: describe the scale-out policy
DescribeUp(i) ==
    /\ proc[i].pc = "describeUp"
    /\ LET resp == livePolicies[ScaleOutName] IN
       \E ok \in Outcomes :
         LET p == Log(proc[i], Call("main", "DescribeScalingPolicies", ScaleOutName,
                                    ok, Len(resp), Len(resp) > 0, <<>>, 0))
         IN  Step(i, IF ~ok \/ Len(resp) = 0 THEN Exit(p, "fatal")
                     ELSE [p EXCEPT !.arns = <<resp[1].PolicyARN>>,
                                    !.pc = "describeDown"], ok)
    /\ UNCHANGED <<args, liveTarget, livePolicies, liveAlarms>>

\* lines 801-810: describe the scale-in policy
DescribeDown(i) ==
    /\ proc[i].pc = "describeDown"
    /\ LET resp == livePolicies[ScaleInName] IN
       \E ok \in Outcomes :
         LET p == Log(proc[i], Call("main", "DescribeScalingPolicies", ScaleInName,
                                    ok, Len(resp), Len(resp) > 0, <<>>, 0))
         IN  Step(i, IF ~ok \/ Len(resp) = 0 THEN Exit(p, "fatal")
                     ELSE [p EXCEPT !.arns = Append(@, resp[1].PolicyARN),
                                    !.pc = "defCheckAlarm", !.k = 1], ok)
    /\ UNCHANGED <<args, liveTarget, livePolicies, liveAlarms>>

\* mutant: the four alarms all act on the up-policy
DefaultAlarmInputs_OneArn(arns) ==
    << MetricAlarmInput(DefaultAlarmNames[1], "Scale out on high CPU", "AWS/ECS",
                        "CPUUtilization", args.outCd, args.cpuOut,
                        "GreaterThanOrEqualToThreshold", arns[1]),
       MetricAlarmInput(DefaultAlarmNames[2], "Scale in on low CPU", "AWS/ECS",
                        "CPUUtilization", args.inCd, args.cpuIn,
                        "LessThanOrEqualToThreshold", arns[1]),
       MetricAlarmInput(DefaultAlarmNames[3], "Scale out on high memory", "AWS/ECS",
                        "MemoryUtilization", args.outCd, args.memOut,
                        "GreaterThanOrEqualToThreshold", arns[1]),
       MetricAlarmInput(DefaultAlarmNames[4], "Scale in on low memory", "AWS/ECS",
                        "MemoryUtilization", args.inCd, args.memIn,
                        "LessThanOrEqualToThreshold", arns[1]) >>

\* lines 813-877: the four alarms; arns = <<up-policy ARN, down-policy ARN>>
DefaultAlarmInputs(arns) ==
    << MetricAlarmInput(DefaultAlarmNames[1], "Scale out on high CPU", "AWS/ECS",
                        "CPUUtilization", args.outCd, args.cpuOut,
                        "GreaterThanOrEqualToThreshold", arns[1]),
       MetricAlarmInput(DefaultAlarmNames[2], "Scale in on low CPU", "AWS/ECS",
                        "CPUUtilization", args.inCd, args.cpuIn,
                        "LessThanOrEqualToThreshold", arns[2]),
       MetricAlarmInput(DefaultAlarmNames[3], "Scale out on high memory", "AWS/ECS",
                        "MemoryUtilization", args.outCd, args.memOut,
                        "GreaterThanOrEqualToThreshold", arns[1]),
       MetricAlarmInput(DefaultAlarmNames[4], "Scale in on low memory", "AWS/ECS",
                        "MemoryUtilization", args.inCd, args.memIn,
                        "LessThanOrEqualToThreshold", arns[2]) >>

NextDefaultAlarm(p) ==
    IF p.k < Len(DefaultAlarmNames) THEN [p EXCEPT !.pc = "defCheckAlarm", !.k = @ + 1]
    ELSE Exit(p, "ok")

\* lines 879-885: checkCloudWatchAlarm on a built-in alarm
DefaultCheckAlarm(i) ==
    /\ proc[i].pc = "defCheckAlarm"
    /\ LET input == DefaultAlarmInputs(proc[i].arns)[proc[i].k] IN
       \E ok \in Outcomes :
         LET exists == checkCloudWatchAlarm(liveAlarms[input.AlarmName])
             p == Log([proc[i] EXCEPT !.alarmInput = Some(input)],
                      Call("checkCloudWatchAlarm", "DescribeAlarms", input.AlarmName,
                           ok, Len(liveAlarms[input.AlarmName]), exists, <<>>, 0))
         IN  Step(i, IF ~ok THEN Exit(p, "fatal")
                     ELSE IF ~exists THEN [p EXCEPT !.pc = "defPutAlarm"]
                     ELSE NextDefaultAlarm(p), ok)
    /\ UNCHANGED <<args, liveTarget, livePolicies, liveAlarms>>

\* lines 887-893: PutMetricAlarm of a built-in alarm
DefaultPutAlarm(i) ==
    /\ proc[i].pc = "defPutAlarm"
    /\ LET input == proc[i].alarmInput[1] IN
       \E ok \in Outcomes :
         LET p == Log(proc[i], Call("main", "PutMetricAlarm", input.AlarmName,
                                    ok, 0, TRUE, <<input>>, 0))
         IN  /\ Step(i, IF ok THEN NextDefaultAlarm(p) ELSE Exit(p, "fatal"), ok)
             /\ liveAlarms' =
                  IF ok THEN [liveAlarms EXCEPT ![input.AlarmName] = <<input>>]
                  ELSE liveAlarms
    /\ UNCHANGED <<args, liveTarget, livePolicies>>

-----------------------------------------------------------------------------
(* The disable path: lines 426-553 *)

\* lines 457-472
\* mutant: an alarm name for every policy of the list, with a metric or not
TeardownAlarmNames_NoFilter(policies) ==
    DefaultAlarmNames
      \o [ j \in DOMAIN policies |-> AlarmNameOf(policies[j].PolicyName) ]

TeardownAlarmNames(policies) ==
    DefaultAlarmNames
      \o [ j \in 1..Len(SelectSeq(policies, HasMetric)) |->
             AlarmNameOf(SelectSeq(policies, HasMetric)[j].PolicyName) ]

\* lines 498-511
TeardownPolicyNames(policies) ==
    deduplicate(<<ScaleOutName, ScaleInName>>
                  \o [ j \in DOMAIN policies |-> policies[j].PolicyName ])

\* after the alarm probes: the batch delete (lines 487-496), else the policies
AfterAlarmProbes(p) ==
    IF p.k < Len(p.alarmNames) THEN [p EXCEPT !.k = @ + 1]
    ELSE IF Len(p.existingAlarms) > 0 THEN [p EXCEPT !.pc = "deleteAlarms"]
    ELSE [p EXCEPT !.pc = "probePolicy", !.k = 1]

\* mutant: nothing is deregistered when no candidate policy exists
AfterPolicyProbes_SkipWhenEmpty(p) ==
    IF p.k < Len(p.policyNames) THEN [p EXCEPT !.k = @ + 1]
    ELSE IF Len(p.existingPolicies) > 0 THEN [p EXCEPT !.pc = "deletePolicy", !.k = 1]
    ELSE Exit(p, "ok")

\* after the policy probes: the deletes (lines 526-538), else the deregistration
AfterPolicyProbes(p) ==
    IF p.k < Len(p.policyNames) THEN [p EXCEPT !.k = @ + 1]
    ELSE IF Len(p.existingPolicies) > 0 THEN [p EXCEPT !.pc = "deletePolicy", !.k = 1]
    ELSE [p EXCEPT !.pc = "deregister"]

\* lines 430-472: scalableTargetExists, then the blob and the alarm names
DisableTargetExists(i) ==
    /\ proc[i].pc = "targetExists"
    /\ \E ok \in Outcomes :
         LET exists == scalableTargetExists(liveTarget)
             p == Log(proc[i], Call("scalableTargetExists", "DescribeScalableTargets",
                                    resourceID, ok, Len(liveTarget), exists, <<>>, 0))
         IN  Step(i, IF ~ok THEN Exit(p, "fatal")
                     ELSE IF ~exists THEN Exit(p, "ok")
                     ELSE IF ParsePolicies.err THEN Exit(p, "fatal")
                     ELSE [p EXCEPT !.policies = ParsePolicies.val,
                                    !.alarmNames = TeardownAlarmNames(ParsePolicies.val),
                                    !.policyNames = TeardownPolicyNames(ParsePolicies.val),
                                    !.pc = "probeAlarm", !.k = 1], ok)
    /\ UNCHANGED <<args, liveTarget, livePolicies, liveAlarms>>

\* mutant: a failed probe of an alarm ends the run
ProbeAlarm_Fatal(i) ==
    /\ proc[i].pc = "probeAlarm"
    /\ LET name == proc[i].alarmNames[proc[i].k] IN
       \E ok \in Outcomes :
         LET exists == checkCloudWatchAlarm(liveAlarms[name])
             p == Log(proc[i], Call("checkCloudWatchAlarm", "DescribeAlarms", name,
                                    ok, Len(liveAlarms[name]), exists, <<>>, 0))
         IN  Step(i, IF ~ok THEN Exit(p, "fatal")
                     ELSE AfterAlarmProbes(
                            IF exists
                            THEN [p EXCEPT !.existingAlarms = Append(@, name)]
                            ELSE p), ok)
    /\ UNCHANGED <<args, liveTarget, livePolicies, liveAlarms>>

\* mutant: every candidate alarm whose probe did not fail is kept for the delete
ProbeAlarm_Unfiltered(i) ==
    /\ proc[i].pc = "probeAlarm"
    /\ LET name == proc[i].alarmNames[proc[i].k] IN
       \E ok \in Outcomes :
         LET exists == checkCloudWatchAlarm(liveAlarms[name])
             p == Log(proc[i], Call("checkCloudWatchAlarm", "DescribeAlarms", name,
                                    ok, Len(liveAlarms[name]), exists, <<>>, 0))
         IN  Step(i, AfterAlarmProbes(
                        IF ok
                        THEN [p EXCEPT !.existingAlarms = Append(@, name)]
                        ELSE p), ok)
    /\ UNCHANGED <<args, liveTarget, livePolicies, liveAlarms>>

\* lines 476-485: checkCloudWatchAlarm on a candidate; a failed probe is skipped
ProbeAlarm(i) ==
    /\ proc[i].pc = "probeAlarm"
    /\ LET name == proc[i].alarmNames[proc[i].k] IN
       \E ok \in Outcomes :
         LET exists == checkCloudWatchAlarm(liveAlarms[name])
             p == Log(proc[i], Call("checkCloudWatchAlarm", "DescribeAlarms", name,
                                    ok, Len(liveAlarms[name]), exists, <<>>, 0))
         IN  Step(i, AfterAlarmProbes(
                        IF ok /\ exists
                        THEN [p EXCEPT !.existingAlarms = Append(@, name)]
                        ELSE p), ok)
    /\ UNCHANGED <<args, liveTarget, livePolicies, liveAlarms>>

\* mutant: the batch delete removes every alarm of the account
DeleteAlarms_Everything(i) ==
    /\ proc[i].pc = "deleteAlarms"
    /\ LET names == proc[i].existingAlarms IN
       \E ok \in Outcomes :
         LET p == Log(proc[i], Call("main", "DeleteAlarms", "", ok, 0, TRUE, names, 0))
         IN  /\ Step(i, IF ok THEN [p EXCEPT !.pc = "probePolicy", !.k = 1]
                        ELSE Exit(p, "fatal"), ok)
             /\ liveAlarms' =
                  IF ok THEN [ n \in DOMAIN liveAlarms |-> <<>> ] ELSE liveAlarms
    /\ UNCHANGED <<args, liveTarget, livePolicies>>

\* mutant: a failed DeleteAlarms is logged and the run goes on to the policies
DeleteAlarms_Continue(i) ==
    /\ proc[i].pc = "deleteAlarms"
    /\ LET names == proc[i].existingAlarms IN
       \E ok \in Outcomes :
         LET p == Log(proc[i], Call("main", "DeleteAlarms", "", ok, 0, TRUE, names, 0))
         IN  /\ Step(i, [p EXCEPT !.pc = "probePolicy", !.k = 1], ok)
             /\ liveAlarms' =
                  IF ok THEN [ n \in DOMAIN liveAlarms |->
                                 IF \E j \in DOMAIN names : names[j] = n THEN <<>>
                                 ELSE liveAlarms[n] ]
                  ELSE liveAlarms
    /\ UNCHANGED <<args, liveTarget, livePolicies>>

\* mutant: the batch delete answers without deleting an alarm
DeleteAlarms_Nothing(i) ==
    /\ proc[i].pc = "deleteAlarms"
    /\ LET names == proc[i].existingAlarms IN
       \E ok \in Outcomes :
         LET p == Log(proc[i], Call("main", "DeleteAlarms", "", ok, 0, TRUE, names, 0))
         IN  Step(i, IF ok THEN [p EXCEPT !.pc = "probePolicy", !.k = 1]
                     ELSE Exit(p, "fatal"), ok)
    /\ UNCHANGED <<args, liveTarget, livePolicies, liveAlarms>>

\* lines 488-496: DeleteAlarms
DeleteAlarms(i) ==
    /\ proc[i].pc = "deleteAlarms"
    /\ LET names == proc[i].existingAlarms IN
       \E ok \in Outcomes :
         LET p == Log(proc[i], Call("main", "DeleteAlarms", "", ok, 0, TRUE, names, 0))
         IN  /\ Step(i, IF ok THEN [p EXCEPT !.pc = "probePolicy", !.k = 1]
                        ELSE Exit(p, "fatal"), ok)
             /\ liveAlarms' =
                  IF ok THEN [ n \in DOMAIN liveAlarms |->
                                 IF \E j \in DOMAIN names : names[j] = n THEN <<>>
                                 ELSE liveAlarms[n] ]
                  ELSE liveAlarms
    /\ UNCHANGED <<args, liveTarget, livePolicies>>

\* lines 515-524: checkScalingPolicy on a candidate; a failed probe is skipped
ProbePolicy(i) ==
    /\ proc[i].pc = "probePolicy"
    /\ LET name == proc[i].policyNames[proc[i].k] IN
       \E ok \in Outcomes :
         LET exists == checkScalingPolicy(livePolicies[name])
             p == Log(proc[i], Call("checkScalingPolicy", "DescribeScalingPolicies", name,
                                    ok, Len(livePolicies[name]), exists, <<>>, 0))
         IN  Step(i, AfterPolicyProbes(
                        IF ok /\ exists
                        THEN [p EXCEPT !.existingPolicies = Append(@, name)]
                        ELSE p), ok)
    /\ UNCHANGED <<args, liveTarget, livePolicies, liveAlarms>>

\* mutant: a failed DeleteScalingPolicy is logged and the loop goes on
DeletePolicy_Continue(i) ==
    /\ proc[i].pc = "deletePolicy"
    /\ LET name == proc[i].existingPolicies[proc[i].k] IN
       \E ok \in Outcomes :
         LET p == Log(proc[i], Call("main", "DeleteScalingPolicy", name, ok, 0, TRUE,
                                    <<>>, 0))
         IN  /\ Step(i, IF p.k < Len(p.existingPolicies) THEN [p EXCEPT !.k = @ + 1]
                        ELSE [p EXCEPT !.pc = "deregister"], ok)
             /\ livePolicies' =
                  IF ok THEN [livePolicies EXCEPT ![name] = <<>>] ELSE livePolicies
    /\ UNCHANGED <<args, liveTarget, liveAlarms>>

\* lines 527-538: DeleteScalingPolicy
DeletePolicy(i) ==
    /\ proc[i].pc = "deletePolicy"
    /\ LET name == proc[i].existingPolicies[proc[i].k] IN
       \E ok \in Outcomes :
         LET p == Log(proc[i], Call("main", "DeleteScalingPolicy", name, ok, 0, TRUE,
                                    <<>>, 0))
         IN  /\ Step(i, IF ~ok THEN Exit(p, "fatal")
                        ELSE IF p.k < Len(p.existingPolicies) THEN [p EXCEPT !.k = @ + 1]
                        ELSE [p EXCEPT !.pc = "deregister"], ok)
             /\ livePolicies' =
                  IF ok THEN [livePolicies EXCEPT ![name] = <<>>] ELSE livePolicies
    /\ UNCHANGED <<args, liveTarget, liveAlarms>>

\* lines 540-552: DeregisterScalableTarget
Deregister(i) ==
    /\ proc[i].pc = "deregister"
    /\ \E ok \in Outcomes :
         LET p == Log(proc[i], Call("main", "DeregisterScalableTarget", resourceID,
                                    ok, 0, TRUE, <<>>, 0))
         IN  /\ Step(i, IF ok THEN Exit(p, "ok") ELSE Exit(p, "fatal"), ok)
             /\ liveTarget' = IF ok THEN <<>> ELSE liveTarget
    /\ UNCHANGED <<args, livePolicies, liveAlarms>>

-----------------------------------------------------------------------------
(* The specification: sequential runs of one process *)

Enable(i) ==
    \/ EnableCheckTarget(i) \/ RegisterTarget(i)
    \/ ComparePolicy(i) \/ CheckPolicyExists(i) \/ PutPolicy(i)
    \/ DescribeForAlarm(i) \/ CheckAlarm(i) \/ PutAlarm(i)
    \/ DefaultCompare(i) \/ DefaultPut(i) \/ DescribeUp(i) \/ DescribeDown(i)
    \/ DefaultCheckAlarm(i) \/ DefaultPutAlarm(i)

Disable(i) ==
    \/ DisableTargetExists(i) \/ ProbeAlarm(i) \/ DeleteAlarms(i)
    \/ ProbePolicy(i) \/ DeletePolicy(i) \/ Deregister(i)

Next == \E i \in DOMAIN proc : StartRun(i) \/ Enable(i) \/ Disable(i)

Spec == Init /\ [][Next]_vars

\* runs on the policies of every scale_direction, and on the built-in template,
\* with nothing but the scalable target live before the first run
InitAlarm ==
    /\ \E c \in {EmptyBlob} \cup DirectionBlobs, t \in ThresholdArgs :
          args = Args([NoNumbers EXCEPT ![5] = t[2], ![6] = t[1]], Invocations,
                      EmptyBlob, c)
    /\ liveTarget \in { <<>>, << LiveTarget(DefaultMinCap, DefaultMaxCap) >> }
    /\ livePolicies = [ n \in AllPolicyNames |-> <<>> ]
    /\ liveAlarms = [ n \in AllAlarmNames |-> <<>> ]
    /\ proc = [ i \in Procs |-> IdleProc ]
    /\ failures = 0

SpecAlarm == InitAlarm /\ [][Next]_vars

\* the desired capacities and the scalable targets of TestCheckScalableTarget:
\* no target, both capacities equal, one differing, both differing
CapacityArgs == { << "", "" >>, << "2", "5" >> }

CompareTargets ==
    { <<>>, << LiveTarget(1, 10) >>, << LiveTarget(2, 5) >>,
      << LiveTarget(1, 5) >>, << LiveTarget(2, 10) >> }

\* a two-step policy and the policies that differ from it in one compared field
SA == StepAdj(Some(0), Some(10), 1)

SB == StepAdj(Some(10), Nil, 2)

PS == [ PA EXCEPT !.StepAdjustments = << SA, SB >> ]

CompareStepPolicies ==
    { PS,
      [ PS EXCEPT !.AdjustmentType = "PercentChangeInCapacity" ],
      [ PS EXCEPT !.MetricAggregationType = "Average" ],
      [ PS EXCEPT !.Cooldown = Nil ],
      [ PS EXCEPT !.Cooldown = Some(120) ],
      [ PS EXCEPT !.StepAdjustments = << SB, SA >> ],
      [ PS EXCEPT !.StepAdjustments = << SA >> ],
      [ PS EXCEPT !.StepAdjustments = << SA, StepAdj(Some(10), Nil, 3) >> ],
      [ PS EXCEPT !.StepAdjustments = << StepAdj(Nil, Some(10), 1), SB >> ],
      [ PS EXCEPT !.StepAdjustments = << StepAdj(Some(5), Some(10), 1), SB >> ],
      [ PS EXCEPT !.StepAdjustments = << SA, StepAdj(Some(10), Some(20), 2) >> ],
      [ PS EXCEPT !.StepAdjustments = << StepAdj(Some(0), Some(20), 1), SB >> ] }

\* a target tracking policy on a customized metric with the dimension map dims
CustomMetricPolicy(dims) ==
    [ ZeroPolicyDef EXCEPT
        !.PolicyName = "p2", !.PolicyType = "TargetTrackingScaling",
        !.TargetTrackingConfiguration = Some(
            [ ZeroTargetTrackingConfig EXCEPT
                !.TargetValue = 50,
                !.CustomMetricSpecification = Some(
                    [ Namespace |-> "ns", MetricName |-> "m",
                      Dimensions |-> dims, Statistic |-> "Average" ]) ]) ]

\* dimension maps: empty, one key, the key with another value, another key, two
\* keys, and keys holding the empty string
CompareDimensions ==
    { {}, { <<"k1", "v1">> }, { <<"k1", "v2">> }, { <<"k2", "v2">> },
      { <<"k1", "v1">>, <<"k2", "v2">> }, { <<"k2", "">> },
      { <<"k1", "v1">>, <<"k2", "">> } }

CompareTrackingPolicies ==
    { CustomMetricPolicy(dims) : dims \in CompareDimensions }
      \cup { PT,
             [ CustomMetricPolicy({ <<"k1", "v1">> }) EXCEPT
                 !.TargetTrackingConfiguration[1].CustomMetricSpecification[1].MetricName
                     = "m2" ],
             [ CustomMetricPolicy({ <<"k1", "v1">> }) EXCEPT
                 !.TargetTrackingConfiguration[1].TargetValue = 60 ] }

\* the policies a describe call may return for a list
LiveVersionsOf(list) ==
    { <<>> }
      \cup UNION { { << LivePolicy(BuildPolicyInput(d, dims)) >> :
                        dims \in DimSeqs(DimsOf(d)) } : d \in list }

\* policies that break the rule of one metric source and of a non-empty step list:
\* target tracking without configuration, with no metric source, with both, and
\* step scaling without step adjustments
InvalidPolicies ==
    { [ PT EXCEPT !.TargetTrackingConfiguration = Nil ],
      [ PT EXCEPT !.TargetTrackingConfiguration[1].PredefinedMetricSpecification = "" ],
      [ CustomMetricPolicy({ <<"k1", "v1">> }) EXCEPT
          !.TargetTrackingConfiguration[1].PredefinedMetricSpecification
              = "ECSServiceAverageCPUUtilization" ],
      [ PS EXCEPT !.StepAdjustments = <<>> ] }

\* [capacity, target, blob, name, live]: what a behaviour of SpecCompare starts from
CompareCases ==
    { [ capacity |-> << "", "" >>,
        target |-> << LiveTarget(DefaultMinCap, DefaultMaxCap) >>,
        blob |-> JsonBlob(<< d >>), name |-> d.PolicyName, live |-> <<>> ] :
        d \in InvalidPolicies }
      \cup
    { [ capacity |-> c, target |-> t, blob |-> b, name |-> "p1", live |-> <<>> ] :
        c \in CapacityArgs, t \in CompareTargets, b \in { EmptyBlob, JsonBlob(<<PS>>) } }
      \cup
    { [ capacity |-> << "", "" >>,
        target |-> << LiveTarget(DefaultMinCap, DefaultMaxCap) >>,
        blob |-> JsonBlob(<< d >>), name |-> d.PolicyName, live |-> l ] :
        d \in CompareStepPolicies,
        l \in LiveVersionsOf(CompareStepPolicies)
                \cup { << LivePolicy(BuildPolicyInput([PT EXCEPT !.PolicyName = "p1"], <<>>)) >> } }
      \cup
    { [ capacity |-> << "", "" >>,
        target |-> << LiveTarget(DefaultMinCap, DefaultMaxCap) >>,
        blob |-> JsonBlob(<< d >>), name |-> d.PolicyName, live |-> l ] :
        d \in CompareTrackingPolicies,
        l \in LiveVersionsOf(CompareTrackingPolicies)
                \cup { << LivePolicy(BuildPolicyInput([PS EXCEPT !.PolicyName = "p2"], <<>>)) >> } }

\* runs that find a scalable target or a policy to compare with the desired one
InitCompare ==
    /\ \E c \in CompareCases :
          /\ args = Args([NoNumbers EXCEPT ![1] = c.capacity[1], ![2] = c.capacity[2]],
                         Invocations, EmptyBlob, c.blob)
          /\ liveTarget = c.target
          /\ livePolicies =
               [ n \in AllPolicyNames |-> IF n = c.name THEN c.live ELSE <<>> ]
    /\ liveAlarms = [ n \in AllAlarmNames |-> <<>> ]
    /\ proc = [ i \in Procs |-> IdleProc ]
    /\ failures = 0

SpecCompare == InitCompare /\ [][Next]_vars

\* the policy names of the lists whose names are collected: two payload names and
\* the name of a built-in policy
PayloadNameSet == { "p1", "p2", ScaleInName }

\* a step policy of the name with <<metric_name, metric_namespace>> = metric
NamedPolicy(name, metric) ==
    [ PA EXCEPT !.PolicyName = name, !.MetricName = metric[1],
                !.MetricNamespace = metric[2] ]

\* both metric fields, one of them, none
MetricFields ==
    { <<"CPUUtilization", "AWS/ECS">>, <<"CPUUtilization", "">>,
      <<"", "AWS/ECS">>, <<"", "">> }

\* the lists of one policy, the lists of two policies with both metric fields or
\* none, and the lists of three policies with both
NameLists ==
    LET all == { NamedPolicy(n, m) : n \in PayloadNameSet, m \in MetricFields }
        full == { NamedPolicy(n, <<"CPUUtilization", "AWS/ECS">>) : n \in PayloadNameSet }
        bare == { NamedPolicy(n, <<"", "">>) : n \in PayloadNameSet }
    IN  { <<>> } \cup { <<a>> : a \in all }
          \cup { <<a, b>> : a, b \in full \cup bare }
          \cup { <<a, b, c>> : a, b, c \in full }

\* runs on the lists of NameLists, with a scalable target and possibly the policy
\* p1 and its alarm live before the first run
InitNames ==
    /\ \E list \in NameLists, raw \in { "", "json" } :
          /\ raw = "" => list = <<>>
          /\ args = Args(NoNumbers, Invocations, EmptyBlob,
                         IF raw = "" THEN EmptyBlob ELSE JsonBlob(list))
    /\ liveTarget = << LiveTarget(DefaultMinCap, DefaultMaxCap) >>
    /\ \E l \in { <<>>, << LivePolicy(StepPolicyInput(PA)) >> } :
          livePolicies = [ n \in AllPolicyNames |-> IF n = "p1" THEN l ELSE <<>> ]
    /\ \E a \in { <<>>, << OldAlarm(AlarmNameOf("p1")) >> } :
          liveAlarms = [ n \in AllAlarmNames |->
                           IF n = AlarmNameOf("p1") THEN a ELSE <<>> ]
    /\ proc = [ i \in Procs |-> IdleProc ]
    /\ failures = 0

SpecNames == InitNames /\ [][Next]_vars

\* texts of a numeric argument: numbers with and without sign and fraction, and
\* texts that are no number
NumericTexts == { "3", "+3", "7", "3.0", "abc", "3x", " 3", "invalid" }

\* os.Args[7..14]: one argument given and the others empty, the thresholds of
\* TestThresholdParsing, and every argument invalid
NumericCases ==
    { [ NoNumbers EXCEPT ![k] = t ] : k \in DOMAIN NoNumbers, t \in NumericTexts }
      \cup { NoNumbers,
             [ NoNumbers EXCEPT ![5] = "80", ![6] = "60" ],
             [ NoNumbers EXCEPT ![7] = "85", ![8] = "65" ],
             [ k \in DOMAIN NoNumbers |-> "invalid" ] }

\* runs of the built-in template and of one custom policy on the numeric arguments
\* of NumericCases, with or without a scalable target before the first run
InitArgs ==
    /\ \E numeric \in NumericCases, c \in { EmptyBlob, JsonBlob(<<PA>>) } :
          args = Args(numeric, Invocations, EmptyBlob, c)
    /\ liveTarget \in { <<>>, << LiveTarget(DefaultMinCap, DefaultMaxCap) >> }
    /\ livePolicies = [ n \in AllPolicyNames |-> <<>> ]
    /\ liveAlarms = [ n \in AllAlarmNames |-> <<>> ]
    /\ proc = [ i \in Procs |-> IdleProc ]
    /\ failures = 0

SpecArgs == InitArgs /\ [][Next]_vars

\* one invocation more than MaxRuns, none of whose remote calls fails, on every
\* pair of blobs, with nothing live before the first
InitRoundTrip ==
    /\ \E cd \in BlobPairs :
          args = Args(NoNumbers, [ enabled |-> EnabledArgs, runs |-> MaxRuns + 1 ],
                      cd[2], cd[1])
    /\ liveTarget = <<>>
    /\ livePolicies = [ n \in AllPolicyNames |-> <<>> ]
    /\ liveAlarms = [ n \in AllAlarmNames |-> <<>> ]
    /\ proc = [ i \in Procs |-> IdleProc ]
    /\ failures = MaxFailures

SpecRoundTrip == InitRoundTrip /\ [][Next]_vars

\* runs whose calls may fail, on the policies of every scale_direction and on the
\* built-in template, with nothing live before the first run
InitEmpty ==
    /\ \E c \in {EmptyBlob} \cup DirectionBlobs :
          args = Args(NoNumbers, Invocations, EmptyBlob, c)
    /\ liveTarget = <<>>
    /\ livePolicies = [ n \in AllPolicyNames |-> <<>> ]
    /\ liveAlarms = [ n \in AllAlarmNames |-> <<>> ]
    /\ proc = [ i \in Procs |-> IdleProc ]
    /\ failures = 0

SpecEmpty == InitEmpty /\ [][Next]_vars

\* two invocations of the program at the same time
ConcurrentProcs == { 1, 2 }

\* the policies of DirectionPolicies that have a cooldown
CooldownBlobs ==
    { b \in DirectionBlobs : \A k \in DOMAIN b.val : b.val[k].Cooldown # Nil }

\* two runs at once, each an enable or a disable run, none of whose calls fails, on
\* the built-in template and on the policies that have a cooldown; no policy and no
\* alarm is live before them, and the scalable target is absent, as desired, or
\* other than desired
InitConcurrent ==
    /\ \E c \in {EmptyBlob} \cup CooldownBlobs :
          args = Args(NoNumbers, [ enabled |-> EnabledArgs, runs |-> 1 ], EmptyBlob, c)
    /\ liveTarget \in { <<>>, << LiveTarget(DefaultMinCap, DefaultMaxCap) >>,
                        << LiveTarget(2, 5) >> }
    /\ livePolicies = [ n \in AllPolicyNames |-> <<>> ]
    /\ liveAlarms = [ n \in AllAlarmNames |-> <<>> ]
    /\ proc = [ i \in ConcurrentProcs |-> IdleProc ]
    /\ failures = MaxFailures

SpecConcurrent == InitConcurrent /\ [][Next]_vars

\* values of os.Args[6]: the two documented ones, the empty string and two other
\* spellings of "yes"
EnabledTexts == EnabledArgs \cup { "", "True", "1" }

\* runs whose calls may fail, on every value of EnabledTexts, on the built-in
\* template and on step policies with a metric, with nothing live before the first
InitEnabled ==
    /\ \E c \in {EmptyBlob} \cup CooldownBlobs :
          args = Args(NoNumbers, [ enabled |-> EnabledTexts, runs |-> MaxRuns ],
                      EmptyBlob, c)
    /\ liveTarget = <<>>
    /\ livePolicies = [ n \in AllPolicyNames |-> <<>> ]
    /\ liveAlarms = [ n \in AllAlarmNames |-> <<>> ]
    /\ proc = [ i \in Procs |-> IdleProc ]
    /\ failures = 0

SpecEnabled == InitEnabled /\ [][Next]_vars

-----------------------------------------------------------------------------
(* Vocabulary of the properties *)

Enabled(p) == p.enabled = "true"

Running(p) == p.pc \notin {"idle", "exited"}

Exited(p) == p.pc = "exited"

LastRun(p) == p.hist[Len(p.hist)]

\* the list the runs parse from the blobs (empty when there is none or it is malformed)
EffectiveList == ParsePolicies.val

\* no two entries of the list share a name and differ
ConflictFree(list) ==
    \A a, b \in DOMAIN list :
        list[a].PolicyName = list[b].PolicyName => list[a] = list[b]

\* the inputs main() can build for an entry of the list
InputsOf(d) == { BuildPolicyInput(d, dims) : dims \in DimSeqs(DimsOf(d)) }

\* the call process i issues in the current step, if it issues one
Issues(i) == Len(proc'[i].calls) = Len(proc[i].calls) + 1

Issued(i) == proc'[i].calls[Len(proc'[i].calls)]

\* the second of two enable runs, the first of which had no failed call
SecondEnableRun(p) ==
    /\ Enabled(p)
    /\ Len(p.hist) > 0
    /\ LastRun(p).enabled = "true"
    /\ ~LastRun(p).callFailed

-----------------------------------------------------------------------------
(* C1 *)

\* C1 as stated: the second of two enable runs with the same inputs, the first
\* without call failures, issues no write call, whatever the desired configuration.
C1_IdempotenceAnyConfiguration ==
    \A i \in DOMAIN proc :
        SecondEnableRun(proc[i]) => Writes(proc[i]) = <<>>

\* C1 amended: the second of two enable runs with the same inputs, the first without
\* call failures, issues no RegisterScalableTarget, PutScalingPolicy or PutMetricAlarm,
\* provided no two entries of the policy list share a policy_name and differ.
C1_Idempotence ==
    \A i \in DOMAIN proc :
        (SecondEnableRun(proc[i]) /\ ConflictFree(EffectiveList))
            => Writes(proc[i]) = <<>>

\* a second enable run ended with exit 0 and without a write, after a first one
\* that wrote the target, a policy and an alarm
C1_Witness ==
    \E i \in DOMAIN proc :
        /\ SecondEnableRun(proc[i])
        /\ LastRun(proc[i]).writes >= 3
        /\ proc[i].exit = "ok"
        /\ Len(proc[i].policies) > 0
        /\ Writes(proc[i]) = <<>>

-----------------------------------------------------------------------------
(* C2 *)

\* the desired state of the resource a write call carries is already live
AlreadyLive(c) ==
    IF c.op = "RegisterScalableTarget" THEN liveTarget = c.arg
    ELSE IF c.op = "PutScalingPolicy"
    THEN livePolicies[c.name] = << LivePolicy(c.arg[1]) >>
    ELSE IF c.op = "PutMetricAlarm" THEN liveAlarms[c.name] # <<>>
    ELSE FALSE

\* C2: an enable run issues no write call for a resource (scalable target, policy,
\* alarm) whose live state already equals the desired state.
C2_NoOpMinimality ==
    [][ \A i \in DOMAIN proc :
          (Issues(i) /\ Enabled(proc[i]) /\ Issued(i).op \in WriteOps)
              => ~AlreadyLive(Issued(i)) ]_vars

\* a first enable run found target and policy as desired and ended without a write
C2_Witness ==
    \E i \in DOMAIN proc :
        /\ Enabled(proc[i]) /\ proc[i].hist = <<>>
        /\ proc[i].exit = "ok"
        /\ \E j \in DOMAIN proc[i].calls :
              proc[i].calls[j].fn = "compareScalingPolicy" /\ proc[i].calls[j].res
        /\ proc[i].calls[1].fn = "checkScalableTarget" /\ proc[i].calls[1].res
        /\ Writes(proc[i]) = <<>>

-----------------------------------------------------------------------------
(* C3 *)

\* the policies the enable run is to make live: the list, else the built-in two
DesiredInputs ==
    IF Len(EffectiveList) > 0
    THEN UNION { InputsOf(EffectiveList[j]) : j \in DOMAIN EffectiveList }
    ELSE { DefaultPolicyInput(DefaultInfos[j][1], DefaultInfos[j][2], DefaultInfos[j][3]) :
             j \in DOMAIN DefaultInfos }

Converged ==
    /\ liveTarget = << LiveTarget(args.minCap, args.maxCap) >>
    /\ \A input \in DesiredInputs :
          compareScalingPolicy(livePolicies[input.PolicyName], input)

\* C3 as stated: after an enable run that ended without a call failure the target
\* has the desired min/max and every policy of the effective set is live and equal
\* to the desired one, whatever the desired configuration.
C3_ConvergenceAnyConfiguration ==
    \A i \in DOMAIN proc :
        (Enabled(proc[i]) /\ proc[i].exit = "ok") => Converged

\* C3 amended: the same, provided no two entries of the policy list share a
\* policy_name and differ.
C3_Convergence ==
    \A i \in DOMAIN proc :
        (Enabled(proc[i]) /\ proc[i].exit = "ok" /\ ConflictFree(EffectiveList))
            => Converged

\* an enable run that registered the target and put a policy has ended with exit 0
C3_Witness ==
    \E i \in DOMAIN proc :
        /\ Enabled(proc[i]) /\ proc[i].exit = "ok"
        /\ Len(proc[i].policies) > 1
        /\ \E j, k \in DOMAIN proc[i].calls :
              /\ proc[i].calls[j].op = "RegisterScalableTarget"
              /\ proc[i].calls[k].op = "PutScalingPolicy"
              /\ proc[i].calls[k].idx = 2

-----------------------------------------------------------------------------
(* C4 *)

\* the calls of the run that are PutMetricAlarm for entry idx of the policy list
AlarmPuts(p, idx) ==
    { j \in DOMAIN p.calls :
        p.calls[j].op = "PutMetricAlarm" /\ p.calls[j].idx = idx }

-----------------------------------------------------------------------------
(* C5 *)

\* every PutMetricAlarm of the run follows an existence check of the same name that
\* found nothing, and an enable run has no DeleteAlarms call
AlarmPutsChecked(p) ==
    \A j \in DOMAIN p.calls :
        /\ p.calls[j].op = "PutMetricAlarm" =>
              \E h \in 1..(j - 1) :
                  /\ p.calls[h].fn = "checkCloudWatchAlarm"
                  /\ p.calls[h].name = p.calls[j].name
                  /\ p.calls[h].ok /\ p.calls[h].found = 0
        /\ p.calls[j].op # "DeleteAlarms"

\* C5: in an enable run PutMetricAlarm is issued for a name only after an existence
\* check of that name found nothing, DeleteAlarms is never issued, and no step of the
\* run changes or removes an alarm that is live.
C5_ExistingAlarmsUntouched ==
    /\ [] ( \A i \in DOMAIN proc : Enabled(proc[i]) => AlarmPutsChecked(proc[i]) )
    /\ [][ \A i \in DOMAIN proc :
             (Enabled(proc[i]) /\ Running(proc[i])) =>
                 \A n \in DOMAIN liveAlarms :
                     liveAlarms[n] # <<>> => liveAlarms'[n] = liveAlarms[n] ]_vars

\* an enable run has created an alarm, has found another one that was made before
\* the run, and has ended with that one still as it was
C5_Witness ==
    \E i \in DOMAIN proc :
        /\ Enabled(proc[i]) /\ proc[i].hist = <<>> /\ proc[i].exit = "ok"
        /\ \E j \in DOMAIN proc[i].calls :
              proc[i].calls[j].op = "PutMetricAlarm" /\ proc[i].calls[j].ok
        /\ \E h \in DOMAIN proc[i].calls :
              /\ proc[i].calls[h].fn = "checkCloudWatchAlarm"
              /\ proc[i].calls[h].found > 0
              /\ liveAlarms[proc[i].calls[h].name] = << OldAlarm(proc[i].calls[h].name) >>

-----------------------------------------------------------------------------
(* C6 *)

BothBlobsGiven ==
    args.policiesRaw.kind # "empty" /\ args.defaultPoliciesRaw.kind # "empty"

CustomList == args.policiesRaw.val

DefaultList == args.defaultPoliciesRaw.val

\* names of policies, and of their alarms, that only the default blob has
DefaultOnlyNames ==
    LET names == { DefaultList[j].PolicyName : j \in DOMAIN DefaultList }
                    \ { CustomList[j].PolicyName : j \in DOMAIN CustomList }
    IN  names \cup { AlarmNameOf(n) : n \in names }

\* the call is a write for entry c.idx of the custom blob
OfCustomBlob(c) ==
    /\ c.idx \in DOMAIN CustomList
    /\ \/ c.op = "PutScalingPolicy" /\ c.arg[1] \in InputsOf(CustomList[c.idx])
       \/ c.op = "PutMetricAlarm" /\ c.name = AlarmNameOf(CustomList[c.idx].PolicyName)

\* the call is a write of the built-in template or of one of its four alarms
OfBuiltInTemplate(c) ==
    /\ c.idx = 0
    /\ \/ c.op = "PutScalingPolicy" /\ c.name \in {ScaleOutName, ScaleInName}
       \/ c.op = "PutMetricAlarm"
            /\ \E j \in DOMAIN DefaultAlarmNames : DefaultAlarmNames[j] = c.name

PolicyOrAlarmWrite(c) == c.op \in {"PutScalingPolicy", "PutMetricAlarm"}

\* no call of the run names a policy, or the alarm of a policy, of the default blob only
DefaultBlobUnused(p) ==
    \A j \in DOMAIN p.calls :
        /\ p.calls[j].name \notin DefaultOnlyNames
        /\ p.calls[j].op = "DeleteAlarms" =>
              \A h \in DOMAIN p.calls[j].arg : p.calls[j].arg[h] \notin DefaultOnlyNames

-----------------------------------------------------------------------------
(* C7 *)

\* C7: an enable run with a malformed custom blob ends with a nonzero exit code and
\* without any write call, whatever the live state.
C7_MalformedJsonNoWrites ==
    \A i \in DOMAIN proc :
        (Enabled(proc[i]) /\ Exited(proc[i]) /\ args.policiesRaw.kind = "malformed")
            => proc[i].exit # "ok" /\ Writes(proc[i]) = <<>>

-----------------------------------------------------------------------------
(* C8 *)

SomeBlobMalformed ==
    args.policiesRaw.kind = "malformed" \/ args.defaultPoliciesRaw.kind = "malformed"

\* C8 as stated: when either blob is malformed every run, enable or disable, ends
\* with a nonzero exit code.
C8_MalformedEitherBlobFatal ==
    \A i \in DOMAIN proc :
        (Exited(proc[i]) /\ SomeBlobMalformed) => proc[i].exit # "ok"

\* the disable run that found no scalable target and returned
NothingToCleanUp(p) ==
    /\ ~Enabled(p)
    /\ Len(p.calls) = 1
    /\ p.calls[1].fn = "scalableTargetExists" /\ p.calls[1].ok /\ p.calls[1].found = 0

\* C8 amended: when the blob the run selects (the custom blob if it is not empty,
\* else the default blob) is malformed, every enable run and every disable run that
\* finds the scalable target registered ends with exit code 1, with no policy or
\* alarm call issued; a disable run that finds no target exits 0 without parsing.
C8_MalformedSelectedBlobFatal ==
    \A i \in DOMAIN proc :
        (Exited(proc[i]) /\ SelectedRaw.kind = "malformed") =>
            /\ \A j \in DOMAIN proc[i].calls :
                  proc[i].calls[j].op \in {"DescribeScalableTargets", "RegisterScalableTarget"}
            /\ IF NothingToCleanUp(proc[i]) THEN proc[i].exit = "ok"
               ELSE proc[i].exit = "fatal"

\* with a malformed selected blob, a disable run that found the target registered
\* and an enable run before it have both ended with exit code 1 without call failure
C8_Witness ==
    \E i \in DOMAIN proc :
        /\ SelectedRaw.kind = "malformed"
        /\ ~Enabled(proc[i]) /\ proc[i].exit = "fatal" /\ ~CallFailed(proc[i])
        /\ proc[i].calls[1].found > 0
        /\ Len(proc[i].hist) > 0
        /\ LastRun(proc[i]).enabled = "true" /\ LastRun(proc[i]).exit = "fatal"
        /\ ~LastRun(proc[i]).callFailed

-----------------------------------------------------------------------------
(* C9 *)

KnownType(d) == d.PolicyType \in {"StepScaling", "TargetTrackingScaling"}

\* C9: an enable run whose policy list holds an entry of unknown policy_type, at any
\* position, ends with a nonzero exit code and without any write call.
C9_UnknownTypeNoWrites ==
    \A i \in DOMAIN proc :
        ( /\ Enabled(proc[i]) /\ Exited(proc[i])
          /\ \E j \in DOMAIN EffectiveList : ~KnownType(EffectiveList[j]) )
            => proc[i].exit # "ok" /\ Writes(proc[i]) = <<>>

-----------------------------------------------------------------------------
(* C10 *)

\* C10: a disable run whose target existence check found no scalable target has
\* ended with exit code 0 and has issued no other call: no probe of an alarm or a
\* policy, no DeleteAlarms, DeleteScalingPolicy or DeregisterScalableTarget.
C10_TeardownShortCircuit ==
    \A i \in DOMAIN proc :
        ( /\ ~Enabled(proc[i]) /\ Len(proc[i].calls) > 0
          /\ proc[i].calls[1].ok /\ proc[i].calls[1].found = 0 )
            => /\ proc[i].exit = "ok"
               /\ Len(proc[i].calls) = 1

\* a disable run has found no target and ended while a candidate policy and a
\* candidate alarm are live
C10_Witness ==
    \E i \in DOMAIN proc :
        /\ ~Enabled(proc[i]) /\ Exited(proc[i])
        /\ Len(proc[i].calls) = 1 /\ proc[i].calls[1].ok /\ proc[i].calls[1].found = 0
        /\ livePolicies[ScaleOutName] # <<>>
        /\ liveAlarms[AlarmNameOf("cpu-high")] # <<>>

-----------------------------------------------------------------------------
(* C11 *)

\* the describe calls of the two services
ReadOps == { "DescribeScalableTargets", "DescribeScalingPolicies", "DescribeAlarms" }

\* a run of the disable path
Disabling(p) == p.pc # "idle" /\ ~Enabled(p)

\* call j of run p is a describe call that failed
FailedRead(p, j) == p.calls[j].op \in ReadOps /\ ~p.calls[j].ok

\* a write call follows call j in run p
WriteAfter(p, j) ==
    \E n \in DOMAIN p.calls : n > j /\ p.calls[n].op \in WriteOps

\* C11 as stated: whenever a describe call of a run fails, other than the probe of
\* an alarm in a disable run, the run ends with a nonzero exit code and issues no
\* write call after the failure; a failed probe of a policy in a disable run is
\* in particular not taken for "policy absent".
C11_ReadErrorsFailClosed ==
    \A i \in DOMAIN proc :
        LET p == proc[i] IN
        \A j \in DOMAIN p.calls :
            ( /\ FailedRead(p, j)
              /\ ~(Disabling(p) /\ p.calls[j].fn = "checkCloudWatchAlarm") )
                => /\ p.exit = "fatal"
                   /\ ~WriteAfter(p, j)

-----------------------------------------------------------------------------
(* C12 *)

\* call j of run p is a write call that failed
FailedWrite(p, j) == p.calls[j].op \in WriteOps /\ ~p.calls[j].ok

\* C12: a register, put, delete or deregister call that fails is the last remote
\* call of its run (no retry, no later call) and the run has ended with a nonzero
\* exit code; the step in which the call fails changes nothing of the live state,
\* so every write that succeeded earlier in the run stays in place.
C12_WriteErrorsFatal ==
    /\ [](\A i \in DOMAIN proc :
            \A j \in DOMAIN proc[i].calls :
                FailedWrite(proc[i], j)
                    => /\ j = Len(proc[i].calls)
                       /\ Exited(proc[i]) /\ proc[i].exit = "fatal")
    /\ [][\A i \in DOMAIN proc :
            (Issues(i) /\ Issued(i).op \in WriteOps /\ ~Issued(i).ok)
                => UNCHANGED <<liveTarget, livePolicies, liveAlarms>>]_vars

\* a run has ended on a failed write call after a PutScalingPolicy that succeeded,
\* and the policy that call put is live
C12_Witness ==
    \E i \in DOMAIN proc :
        LET p == proc[i] IN
        /\ Exited(p) /\ p.exit = "fatal"
        /\ Len(p.calls) > 1 /\ FailedWrite(p, Len(p.calls))
        /\ \E j \in 1..(Len(p.calls) - 1) :
              /\ p.calls[j].op = "PutScalingPolicy" /\ p.calls[j].ok
              /\ livePolicies[p.calls[j].name] = << LivePolicy(p.calls[j].arg[1]) >>

-----------------------------------------------------------------------------
(* C13 *)

\* C13: in a disable run, a DeleteScalingPolicy call that fails is the last call of
\* the run: the run has ended with a nonzero exit code, has issued no
\* DeregisterScalableTarget, the policies it had still to delete are live and the
\* scalable target is registered.
C13_PolicyDeleteFailureKeepsTarget ==
    \A i \in DOMAIN proc :
        LET p == proc[i] IN
        \A j \in DOMAIN p.calls :
            (Disabling(p) /\ p.calls[j].op = "DeleteScalingPolicy" /\ ~p.calls[j].ok)
                => /\ j = Len(p.calls)
                   /\ Exited(p) /\ p.exit = "fatal"
                   /\ \A n \in DOMAIN p.calls :
                          p.calls[n].op # "DeregisterScalableTarget"
                   /\ \A m \in p.k..Len(p.existingPolicies) :
                          livePolicies[p.existingPolicies[m]] # <<>>
                   /\ liveTarget # <<>>

\* a disable run has ended on the failed delete of the first of two policies that
\* exist
C13_Witness ==
    \E i \in DOMAIN proc :
        LET p == proc[i] IN
        /\ Disabling(p) /\ Exited(p) /\ Len(p.calls) > 0
        /\ p.calls[Len(p.calls)].op = "DeleteScalingPolicy"
        /\ ~p.calls[Len(p.calls)].ok
        /\ p.k = 1 /\ Len(p.existingPolicies) = 2
        /\ liveTarget # <<>>

-----------------------------------------------------------------------------
(* C14 *)

\* the candidate policy names of a disable run: the two built-in names and every
\* name of the parsed payload
Candidates(p) == { p.policyNames[m] : m \in DOMAIN p.policyNames }

\* C14 as stated: in every execution, with or without failed calls, when a disable
\* run is about to issue DeregisterScalableTarget none of its candidate policies
\* is live.
C14_NoDeregisterWithLivePolicy ==
    \A i \in DOMAIN proc :
        (Disabling(proc[i]) /\ proc[i].pc = "deregister")
            => \A n \in Candidates(proc[i]) : livePolicies[n] = <<>>

-----------------------------------------------------------------------------
(* C15 *)

\* before call j, run p probed name with function fn and the probe returned true
\* on an answer that held the resource
Confirmed(p, j, fn, name) ==
    \E n \in 1..(j - 1) :
        /\ p.calls[n].fn = fn /\ p.calls[n].name = name
        /\ p.calls[n].ok /\ p.calls[n].res /\ p.calls[n].found > 0

\* the positions of the DeleteAlarms calls of run p
AlarmDeletes(p) == { j \in DOMAIN p.calls : p.calls[j].op = "DeleteAlarms" }

\* C15: in a disable run every alarm name passed to DeleteAlarms and every policy
\* name passed to DeleteScalingPolicy was confirmed by an existence probe earlier in
\* the run; there is at most one DeleteAlarms call, it carries every alarm a probe
\* confirmed, it is there once the run has gone past the alarms with a confirmed
\* alarm, and it is absent when no probe confirmed an alarm.
C15_DeleteOnlyConfirmed ==
    \A i \in DOMAIN proc :
        LET p == proc[i] IN
        Disabling(p) =>
            /\ \A j \in AlarmDeletes(p) :
                  /\ p.calls[j].arg # <<>>
                  /\ \A m \in DOMAIN p.calls[j].arg :
                        Confirmed(p, j, "checkCloudWatchAlarm", p.calls[j].arg[m])
                  /\ \A n \in DOMAIN p.calls :
                        (p.calls[n].fn = "checkCloudWatchAlarm" /\ p.calls[n].res)
                            => /\ n < j
                               /\ \E m \in DOMAIN p.calls[j].arg :
                                     p.calls[j].arg[m] = p.calls[n].name
            /\ Cardinality(AlarmDeletes(p)) <= 1
            /\ \A j \in DOMAIN p.calls :
                  p.calls[j].op = "DeleteScalingPolicy"
                      => Confirmed(p, j, "checkScalingPolicy", p.calls[j].name)
            /\ \A j \in DOMAIN p.calls :
                  ( /\ p.calls[j].fn = "checkScalingPolicy"
                    /\ \E n \in DOMAIN p.calls :
                          p.calls[n].fn = "checkCloudWatchAlarm" /\ p.calls[n].res )
                      => \E d \in AlarmDeletes(p) : d < j

\* a disable run has deleted two alarms in one call, after a probe of a third that
\* found nothing, and has deleted a policy
C15_Witness ==
    \E i \in DOMAIN proc :
        LET p == proc[i] IN
        /\ Disabling(p)
        /\ \E j \in AlarmDeletes(p) :
              /\ p.calls[j].ok /\ Len(p.calls[j].arg) = 2
              /\ p.calls[j].arg[1] # p.calls[j].arg[2]
              /\ \E n \in 1..(j - 1) :
                    /\ p.calls[n].fn = "checkCloudWatchAlarm"
                    /\ p.calls[n].ok /\ ~p.calls[n].res
        /\ \E j \in DOMAIN p.calls :
              p.calls[j].op = "DeleteScalingPolicy" /\ p.calls[j].ok

-----------------------------------------------------------------------------
(* C16 *)

\* the step of the disable path a call belongs to
TeardownPhase(c) ==
    CASE c.fn = "scalableTargetExists" -> 1
      [] c.fn = "checkCloudWatchAlarm" -> 2
      [] c.op = "DeleteAlarms" -> 3
      [] c.fn = "checkScalingPolicy" -> 4
      [] c.op = "DeleteScalingPolicy" -> 5
      [] c.op = "DeregisterScalableTarget" -> 6
      [] OTHER -> 0

\* C16: the calls of a disable run come in the order target existence check, alarm
\* probes, alarm batch delete, policy probes, policy deletes, deregister, with one
\* target check, at most one batch delete and at most one deregister; a run that
\* found the target registered and ended without a fatal error has issued
\* DeregisterScalableTarget as its last call, whether or not anything else existed.
C16_TeardownOrder ==
    \A i \in DOMAIN proc :
        LET p == proc[i] IN
        Disabling(p) =>
            /\ \A j \in DOMAIN p.calls :
                  /\ TeardownPhase(p.calls[j]) > 0
                  /\ TeardownPhase(p.calls[j]) = 1 <=> j = 1
            /\ \A j, n \in DOMAIN p.calls :
                  j < n =>
                    /\ TeardownPhase(p.calls[j]) <= TeardownPhase(p.calls[n])
                    /\ TeardownPhase(p.calls[j]) \in {3, 6}
                          => TeardownPhase(p.calls[j]) < TeardownPhase(p.calls[n])
            /\ ( /\ Exited(p) /\ p.exit # "fatal"
                 /\ p.calls[1].ok /\ p.calls[1].res )
                  => /\ TeardownPhase(p.calls[Len(p.calls)]) = 6
                     /\ p.calls[Len(p.calls)].ok

\* a disable run has gone through all six steps and ended with exit code 0
C16_Witness ==
    \E i \in DOMAIN proc :
        LET p == proc[i] IN
        /\ Disabling(p) /\ Exited(p) /\ p.exit = "ok"
        /\ \A ph \in 1..6 : \E j \in DOMAIN p.calls : TeardownPhase(p.calls[j]) = ph
        /\ TeardownPhase(p.calls[Len(p.calls)]) = 6

-----------------------------------------------------------------------------
(* C17 *)

\* the kind of resource a write call of the enable path is about
EnableRank(c) ==
    CASE c.op = "RegisterScalableTarget" -> 1
      [] c.op = "PutScalingPolicy" -> 2
      [] c.op = "PutMetricAlarm" -> 3
      [] OTHER -> 0

\* the positions of the write calls of run p
WritePositions(p) == { j \in DOMAIN p.calls : p.calls[j].op \in WriteOps }

\* C17 as stated: in an enable run the write to the scalable target comes before
\* every policy write, and every policy write comes before every alarm write.
C17_TargetPoliciesAlarms ==
    \A i \in DOMAIN proc :
        Enabled(proc[i]) =>
            \A j, n \in WritePositions(proc[i]) :
                j < n => EnableRank(proc[i].calls[j]) <= EnableRank(proc[i].calls[n])

\* C17, amended: in an enable run the write to the scalable target comes before
\* every policy and alarm write; the entries of a custom list are written in list
\* order, each entry's policy before its own alarm, so that an alarm write comes
\* before a policy write only when that policy is a later entry of the list; on the
\* built-in path both policy writes come before every alarm write.
C17_EnableOrder ==
    \A i \in DOMAIN proc :
        LET p == proc[i] IN
        Enabled(p) =>
            \A j, n \in WritePositions(p) :
                j < n =>
                    /\ EnableRank(p.calls[j]) > 0 /\ EnableRank(p.calls[n]) > 1
                    /\ p.calls[j].idx <= p.calls[n].idx
                    /\ EnableRank(p.calls[j]) > EnableRank(p.calls[n])
                          => p.calls[j].idx < p.calls[n].idx

\* an enable run has registered the target, put the policy and the alarm of the
\* first entry and then the policy of the second entry, of another name
C17_Witness ==
    \E i \in DOMAIN proc :
        LET p == proc[i] IN
        /\ Enabled(p)
        /\ \E j, n, m, q \in WritePositions(p) :
              /\ j < n /\ n < m /\ m < q
              /\ p.calls[j].op = "RegisterScalableTarget"
              /\ p.calls[n].op = "PutScalingPolicy" /\ p.calls[n].idx = 1
              /\ p.calls[m].op = "PutMetricAlarm" /\ p.calls[m].idx = 1
              /\ p.calls[q].op = "PutScalingPolicy" /\ p.calls[q].idx = 2
              /\ p.calls[q].name # p.calls[n].name

-----------------------------------------------------------------------------
(* C18 *)

\* the positions of the PutMetricAlarm calls run p issued for entries of its list
CustomAlarmPuts(p) ==
    { j \in DOMAIN p.calls : p.calls[j].op = "PutMetricAlarm" /\ p.calls[j].idx > 0 }

-----------------------------------------------------------------------------
(* C19 *)

\* the threshold TestCustomPolicyThresholdSelection selects for a policy
TestThresholdSelection(p, targetCPUIn, targetCPUOut) ==
    IF p.ScaleDirection = "in" THEN targetCPUIn
    ELSE IF p.ScaleDirection = "out" THEN targetCPUOut
    ELSE IF Contains(ToLower(p.PolicyName), "in") THEN targetCPUIn
    ELSE targetCPUOut

\* the name of a policy contains "in", in whatever case
NameSaysIn(d) == Contains(ToLower(d.PolicyName), "in")

\* the positions of the alarm puts of run p for entries with no scale_direction
UndirectedAlarmPuts(p) ==
    { j \in CustomAlarmPuts(p) : p.policies[p.calls[j].idx].ScaleDirection = "" }

-----------------------------------------------------------------------------
(* C20 *)

\* the custom policy of the scenario: no field but these, no cooldown
ScenarioPolicy ==
    [ ZeroPolicyDef EXCEPT
        !.PolicyName = "p1", !.PolicyType = "StepScaling",
        !.MetricName = "CPUUtilization", !.MetricNamespace = "AWS/ECS",
        !.ScaleDirection = "in",
        !.StepAdjustments = << StepAdj(Nil, Nil, -1) >> ]

\* the first run of a behaviour is an enable run on the scenario (p1 is not live
\* before it), has ended, and none of its calls failed
ScenarioRun(p) ==
    /\ Enabled(p) /\ Exited(p) /\ p.run = 1 /\ ~CallFailed(p)
    /\ args.policiesRaw = JsonBlob(<< ScenarioPolicy >>)
    /\ args.cpuIn = 20

\* C20 as stated: the enable run on the scenario creates the alarm c-s-p1 with
\* threshold 20 and comparator less-than-or-equal, and exits with success.
C20_ScenarioCreatesAlarm ==
    \A i \in DOMAIN proc :
        ScenarioRun(proc[i]) =>
            /\ proc[i].exit = "ok"
            /\ liveAlarms[AlarmNameOf("p1")] # <<>>
            /\ liveAlarms[AlarmNameOf("p1")][1].Threshold = 20
            /\ liveAlarms[AlarmNameOf("p1")][1].ComparisonOperator =
                   "LessThanOrEqualToThreshold"

-----------------------------------------------------------------------------
(* C21 *)

\* an enable run with no policy blob has ended without a failed call, and found
\* nothing live: no target, no policy to compare, no alarm
AllDefaultsRun(p) ==
    /\ Enabled(p) /\ Exited(p) /\ ~CallFailed(p)
    /\ args.policiesRaw = EmptyBlob /\ args.defaultPoliciesRaw = EmptyBlob
    /\ \A j \in DOMAIN p.calls :
          p.calls[j].fn \in { "checkScalableTarget", "compareScalingPolicy",
                              "checkCloudWatchAlarm" }
              => p.calls[j].found = 0

\* the live step policy of a name has one adjustment adj and cooldown cd
LiveStepPolicyIs(name, adj, cd) ==
    /\ livePolicies[name] # <<>>
    /\ livePolicies[name][1].PolicyType = "StepScaling"
    /\ LET cfg == livePolicies[name][1].StepScalingPolicyConfiguration[1] IN
       /\ cfg.Cooldown = << cd >>
       /\ Len(cfg.StepAdjustments) = 1
       /\ cfg.StepAdjustments[1].ScalingAdjustment = adj

\* the live alarm of a suffix has the comparator and threshold given and acts on
\* the policy given
LiveAlarmIs(suffix, comp, threshold, policy) ==
    /\ liveAlarms[AlarmNameOf(suffix)] # <<>>
    /\ LET a == liveAlarms[AlarmNameOf(suffix)][1] IN
       /\ a.ComparisonOperator = comp /\ a.Threshold = threshold
       /\ a.AlarmActions = << PolicyARN(policy) >>

\* C21: an enable run with all defaults on an empty live state exits 0 with the
\* target registered at min 1 and max 10, the policies c-s-scale-out (+1, cooldown
\* 300) and c-s-scale-in (-1, cooldown 300) live, and exactly 4 alarms written:
\* cpu-high (>= 75) and mem-high (>= 80) on the scale-out policy, cpu-low (<= 65)
\* and mem-low (<= 70) on the scale-in policy; and in every enable run a built-in
\* alarm is written only right after a check that found no alarm of its name.
C21_AllDefaults ==
    \A i \in DOMAIN proc :
        LET p == proc[i] IN
        /\ AllDefaultsRun(p) =>
              /\ p.exit = "ok"
              /\ liveTarget = << [MinCapacity |-> 1, MaxCapacity |-> 10] >>
              /\ LiveStepPolicyIs(ScaleOutName, 1, 300)
              /\ LiveStepPolicyIs(ScaleInName, -1, 300)
              /\ LiveAlarmIs("cpu-high", "GreaterThanOrEqualToThreshold", 75, ScaleOutName)
              /\ LiveAlarmIs("mem-high", "GreaterThanOrEqualToThreshold", 80, ScaleOutName)
              /\ LiveAlarmIs("cpu-low", "LessThanOrEqualToThreshold", 65, ScaleInName)
              /\ LiveAlarmIs("mem-low", "LessThanOrEqualToThreshold", 70, ScaleInName)
              /\ [ j \in 1..Len(Writes(p)) |-> Writes(p)[j].op ] =
                   << "RegisterScalableTarget", "PutScalingPolicy", "PutScalingPolicy",
                      "PutMetricAlarm", "PutMetricAlarm", "PutMetricAlarm",
                      "PutMetricAlarm" >>
        /\ Enabled(p) =>
              \A j \in DOMAIN p.calls :
                  (p.calls[j].op = "PutMetricAlarm" /\ p.calls[j].idx = 0)
                      => /\ j > 1
                         /\ p.calls[j - 1].fn = "checkCloudWatchAlarm"
                         /\ p.calls[j - 1].name = p.calls[j].name
                         /\ p.calls[j - 1].ok /\ p.calls[j - 1].found = 0

\* an enable run with all defaults on an empty live state has ended after seven
\* write calls
C21_Witness ==
    \E i \in DOMAIN proc :
        /\ AllDefaultsRun(proc[i]) /\ proc[i].run = 1
        /\ Len(Writes(proc[i])) = 7
        /\ \A n \in DOMAIN DefaultAlarmNames : liveAlarms[DefaultAlarmNames[n]] # <<>>

-----------------------------------------------------------------------------
(* C22 *)

\* a write of the enable path outside the loop over the list: a policy or an alarm
\* of the built-in template
TemplateWrite(c) ==
    c.op \in {"PutScalingPolicy", "PutMetricAlarm"} /\ c.idx = 0

\* the names an entry of the list stands for: its policy and its alarm
PayloadNames(list) ==
    { list[j].PolicyName : j \in DOMAIN list }
      \cup { AlarmNameOf(list[j].PolicyName) : j \in DOMAIN list }

DefaultNames ==
    { ScaleOutName, ScaleInName }
      \cup { DefaultAlarmNames[n] : n \in DOMAIN DefaultAlarmNames }

-----------------------------------------------------------------------------
(* C23 *)

\* the live policies and alarms one enable run without a failed call leaves when it
\* starts with no policy and no alarm live: the built-in template and its four
\* alarms for an empty list; for a list of one step policy with a metric, the
\* policy and, when the policy has a cooldown, its alarm
FreshPolicies ==
    IF EffectiveList = <<>>
    THEN [ n \in AllPolicyNames |->
             IF \E k \in DOMAIN DefaultInfos : DefaultInfos[k][1] = n
             THEN LET info == DefaultInfos[CHOOSE k \in DOMAIN DefaultInfos :
                                               DefaultInfos[k][1] = n]
                  IN  << LivePolicy(DefaultPolicyInput(info[1], info[2], info[3])) >>
             ELSE <<>> ]
    ELSE [ n \in AllPolicyNames |->
             IF n = EffectiveList[1].PolicyName
             THEN << LivePolicy(StepPolicyInput(EffectiveList[1])) >>
             ELSE <<>> ]

FreshAlarms ==
    IF EffectiveList = <<>>
    THEN [ n \in AllAlarmNames |->
             IF \E k \in DOMAIN DefaultAlarmNames : DefaultAlarmNames[k] = n
             THEN LET k == CHOOSE k \in DOMAIN DefaultAlarmNames :
                                  DefaultAlarmNames[k] = n
                  IN  << DefaultAlarmInputs(<< PolicyARN(ScaleOutName),
                                               PolicyARN(ScaleInName) >>)[k] >>
             ELSE <<>> ]
    ELSE [ n \in AllAlarmNames |->
             IF n = AlarmNameOf(EffectiveList[1].PolicyName)
                /\ EffectiveList[1].Cooldown # Nil
             THEN << CustomAlarmInput(EffectiveList[1],
                                      PolicyARN(EffectiveList[1].PolicyName)) >>
             ELSE <<>> ]

\* the live state is the one a single enable run without a failed call produces
\* from a state with no policy and no alarm
AsAfterOneRun ==
    /\ liveTarget = << LiveTarget(args.minCap, args.maxCap) >>
    /\ livePolicies = FreshPolicies
    /\ liveAlarms = FreshAlarms

\* the first run of the behaviour was an enable run that a failed call aborted, and
\* the second one is an enable run that has ended without a failed call
RecoveryRun(p) ==
    /\ p.run = 2 /\ Len(p.hist) = 1
    /\ LastRun(p).enabled = "true" /\ LastRun(p).callFailed
    /\ Enabled(p) /\ Exited(p) /\ ~CallFailed(p)

\* C23 as stated: after an enable run that a failed read or write call aborted, an
\* enable run with the same inputs and no failed call leaves target, policies and
\* alarms as a single enable run without a failed call would have left them from
\* the original live state.
C23_RecoveryByRerun ==
    \A i \in DOMAIN proc : RecoveryRun(proc[i]) => AsAfterOneRun

-----------------------------------------------------------------------------
(* C24 *)

\* before call j, run p put the policy of a name or found it matching, and a later
\* describe call, still before j, succeeded and returned the policy
PutThenDescribed(p, j, name) ==
    \E m, n \in 1..(j - 1) :
        /\ m < n
        /\ p.calls[m].name = name /\ p.calls[m].ok
        /\ \/ p.calls[m].op = "PutScalingPolicy"
           \/ p.calls[m].fn = "compareScalingPolicy" /\ p.calls[m].res
        /\ p.calls[n].fn = "main" /\ p.calls[n].op = "DescribeScalingPolicies"
        /\ p.calls[n].name = name /\ p.calls[n].ok /\ p.calls[n].found > 0

\* C24: every PutMetricAlarm of an enable run has one action, the ARN of a policy
\* the run put or found matching earlier and then got back from a successful
\* describe call; the policy is live when the alarm is put.
C24_PolicyBeforeAlarm ==
    \A i \in DOMAIN proc :
        LET p == proc[i] IN
        Enabled(p) =>
            \A j \in DOMAIN p.calls :
                p.calls[j].op = "PutMetricAlarm" =>
                    \E name \in AllPolicyNames :
                        /\ p.calls[j].arg[1].AlarmActions = << PolicyARN(name) >>
                        /\ PutThenDescribed(p, j, name)
                        /\ livePolicies[name] # <<>>
                        /\ livePolicies[name][1].PolicyARN = PolicyARN(name)

\* an enable run has put the alarm of a policy it had put and described, and an
\* alarm of the built-in scale-in policy it had found matching
C24_Witness ==
    \E i \in DOMAIN proc :
        LET p == proc[i] IN
        /\ Enabled(p) /\ Len(p.calls) > 0
        /\ p.calls[Len(p.calls)].op = "PutMetricAlarm" /\ p.calls[Len(p.calls)].ok
        /\ \/ /\ p.calls[Len(p.calls)].idx > 0
              /\ \E m \in DOMAIN p.calls :
                    /\ p.calls[m].op = "PutScalingPolicy"
                    /\ p.calls[m].idx = p.calls[Len(p.calls)].idx
           \/ /\ p.calls[Len(p.calls)].name = AlarmNameOf("cpu-low")
              /\ \E m \in DOMAIN p.calls :
                    /\ p.calls[m].fn = "compareScalingPolicy" /\ p.calls[m].res
                    /\ p.calls[m].name = ScaleInName

-----------------------------------------------------------------------------
(* C25 *)

\* the calls of a run that register the scalable target
RegisterCalls(p) ==
    { j \in DOMAIN p.calls : p.calls[j].op = "RegisterScalableTarget" }

\* a target is live with the desired minimum and the desired maximum
TargetAsDesired ==
    /\ liveTarget # <<>>
    /\ liveTarget[1].MinCapacity = args.minCap
    /\ liveTarget[1].MaxCapacity = args.maxCap

\* C25: checkScalableTarget returns true iff a target is live with the desired
\* minimum and maximum; an enable run registers the target, with the desired
\* capacities, iff the comparator returned false, and at most once.
C25_TargetReconciliation ==
    \A i \in DOMAIN proc :
        LET p == proc[i]
            n == Len(p.calls)
        IN
        /\ ( n > 0 /\ p.calls[n].fn = "checkScalableTarget" /\ p.calls[n].ok )
              => /\ p.calls[n].res = TargetAsDesired
                 /\ (p.pc = "register") = ~p.calls[n].res
        /\ \A j \in RegisterCalls(p) :
              /\ Enabled(p)
              /\ j > 1
              /\ p.calls[j - 1].fn = "checkScalableTarget"
              /\ p.calls[j - 1].ok /\ ~p.calls[j - 1].res
              /\ p.calls[j].arg = << LiveTarget(args.minCap, args.maxCap) >>
        /\ \A j \in DOMAIN p.calls :
              ( p.calls[j].fn = "checkScalableTarget" /\ p.calls[j].ok
                /\ ~p.calls[j].res /\ j < n )
                 => j + 1 \in RegisterCalls(p)
        /\ Cardinality(RegisterCalls(p)) <= 1

\* the first enable run found a target with other capacities than the desired
\* ones, registered the desired capacities, and went on
C25_Witness ==
    \E i \in DOMAIN proc :
        LET p == proc[i] IN
        /\ Enabled(p) /\ Len(p.calls) > 2
        /\ p.calls[1].fn = "checkScalableTarget" /\ p.calls[1].found = 1
        /\ ~p.calls[1].res
        /\ p.calls[2].op = "RegisterScalableTarget" /\ p.calls[2].ok
        /\ args.minCap = 1 /\ args.maxCap = 10
        /\ p.hist = <<>>
        /\ liveTarget = << LiveTarget(1, 10) >>

-----------------------------------------------------------------------------
(* C26 *)

\* the run has just compared the live policy with the policyInput it built
JustCompared(p) ==
    /\ Len(p.calls) > 0
    /\ p.calls[Len(p.calls)].fn = "compareScalingPolicy"
    /\ p.calls[Len(p.calls)].ok
    /\ p.calls[Len(p.calls)].idx > 0
    /\ p.policyInput # Nil

\* a step policy of the name is live and equals the desired one in adjustment type,
\* aggregation type, cooldown and, position by position, in the step adjustments
StepEquivalent(live, desired) ==
    /\ live # <<>>
    /\ live[1].PolicyType = "StepScaling"
    /\ desired.PolicyType = "StepScaling"
    /\ LET e == live[1].StepScalingPolicyConfiguration[1]
           d == desired.StepScalingPolicyConfiguration[1]
       IN  /\ e.AdjustmentType = d.AdjustmentType
           /\ e.MetricAggregationType = d.MetricAggregationType
           /\ e.Cooldown = d.Cooldown
           /\ Len(e.StepAdjustments) = Len(d.StepAdjustments)
           /\ \A k \in DOMAIN e.StepAdjustments :
                /\ e.StepAdjustments[k].MetricIntervalLowerBound
                     = d.StepAdjustments[k].MetricIntervalLowerBound
                /\ e.StepAdjustments[k].MetricIntervalUpperBound
                     = d.StepAdjustments[k].MetricIntervalUpperBound
                /\ e.StepAdjustments[k].ScalingAdjustment
                     = d.StepAdjustments[k].ScalingAdjustment

\* the calls of a run that put the policy at position idx of the list
PolicyPuts(p, idx) ==
    { j \in DOMAIN p.calls :
        p.calls[j].op = "PutScalingPolicy" /\ p.calls[j].idx = idx }

\* C26: for a desired StepScaling policy compareScalingPolicy returns true iff a
\* StepScaling policy of the name is live with equal adjustment type, aggregation
\* type, cooldown (absent on both sides or equal) and position-wise equal step
\* adjustments; after false the run puts the policy, after true it does not.
C26_StepEquivalence ==
    \A i \in DOMAIN proc :
        LET p == proc[i]
            n == Len(p.calls)
        IN
        /\ ( JustCompared(p) /\ p.policyInput[1].PolicyType = "StepScaling" )
              => /\ p.calls[n].res
                    = StepEquivalent(livePolicies[p.calls[n].name], p.policyInput[1])
                 /\ (p.pc = "checkExists") = ~p.calls[n].res
        /\ \A j \in DOMAIN p.calls :
              ( p.calls[j].fn = "compareScalingPolicy" /\ p.calls[j].ok
                /\ p.calls[j].idx > 0 )
                 => /\ p.calls[j].res => PolicyPuts(p, p.calls[j].idx) = {}
                    /\ ( ~p.calls[j].res /\ j + 1 < n /\ p.calls[j + 1].ok )
                          => /\ j + 2 \in PolicyPuts(p, p.calls[j].idx)
                             /\ p.calls[j + 2].name = p.calls[j].name

\* the live policy has the two desired step adjustments in the other order: the
\* comparator returned false, the run found the policy existing and goes on to put it
C26_Witness ==
    \E i \in DOMAIN proc :
        LET p == proc[i] IN
        /\ p.pc = "put" /\ p.policyExists
        /\ ~p.calls[Len(p.calls) - 1].res
        /\ p.policyInput[1].StepScalingPolicyConfiguration[1].StepAdjustments
             = << SA, SB >>
        /\ livePolicies["p1"][1].StepScalingPolicyConfiguration
             = Some([ p.policyInput[1].StepScalingPolicyConfiguration[1]
                        EXCEPT !.StepAdjustments = << SB, SA >> ])

-----------------------------------------------------------------------------
(* C27 *)

\* live and desired are target tracking policies on a customized metric and
\* agree in every compared field other than the dimensions
OnlyDimensionsCompared(live, desired) ==
    /\ live # <<>>
    /\ live[1].PolicyType = "TargetTrackingScaling"
    /\ desired.PolicyType = "TargetTrackingScaling"
    /\ LET e == live[1].TargetTrackingScalingPolicyConfiguration[1]
           d == desired.TargetTrackingScalingPolicyConfiguration[1]
       IN  /\ e.TargetValue = d.TargetValue
           /\ e.ScaleInCooldown = d.ScaleInCooldown
           /\ e.ScaleOutCooldown = d.ScaleOutCooldown
           /\ e.PredefinedMetricSpecification = Nil
           /\ d.PredefinedMetricSpecification = Nil
           /\ e.CustomizedMetricSpecification # Nil
           /\ d.CustomizedMetricSpecification # Nil
           /\ e.CustomizedMetricSpecification[1].MetricName
                = d.CustomizedMetricSpecification[1].MetricName
           /\ e.CustomizedMetricSpecification[1].Namespace
                = d.CustomizedMetricSpecification[1].Namespace
           /\ e.CustomizedMetricSpecification[1].Statistic
                = d.CustomizedMetricSpecification[1].Statistic

DimensionsOf(policy) ==
    policy.TargetTrackingScalingPolicyConfiguration[1]
          .CustomizedMetricSpecification[1].Dimensions

\* the dimension list has the key
HasKey(dims, key) == \E k \in DOMAIN dims : dims[k].Name = key

\* every key of the desired list is in the live list with the same value
DesiredWithinLive(e, d) ==
    \A k \in DOMAIN d : \E m \in DOMAIN e : e[m] = d[k]

\* the comparison states of the claim: a successful comparison of two policies
\* that can differ in their dimensions only
DimensionCases(p) ==
    /\ JustCompared(p)
    /\ OnlyDimensionsCompared(livePolicies[p.calls[Len(p.calls)].name],
                              p.policyInput[1])

\* C27 as stated: the dimensions match iff every desired key is in live with an
\* equal value, whatever other keys live has.
C27_DesiredSubsetOfLive ==
    \A i \in DOMAIN proc :
        LET p == proc[i] IN
        DimensionCases(p) =>
            p.calls[Len(p.calls)].res
              = DesiredWithinLive(
                    DimensionsOf(livePolicies[p.calls[Len(p.calls)].name][1]),
                    DimensionsOf(p.policyInput[1]))

\* C27 amended: the dimensions match iff live and desired have the same number of
\* dimensions and every desired key has, in live, the desired value, a key that
\* live lacks counting as held with the empty string.
C27_SameNumberAndValues ==
    \A i \in DOMAIN proc :
        LET p == proc[i]
            e == DimensionsOf(livePolicies[p.calls[Len(p.calls)].name][1])
            d == DimensionsOf(p.policyInput[1])
        IN
        DimensionCases(p) =>
            p.calls[Len(p.calls)].res
              = ( /\ Len(e) = Len(d)
                  /\ \A k \in DOMAIN d :
                        IF HasKey(e, d[k].Name)
                        THEN \E m \in DOMAIN e : e[m] = d[k]
                        ELSE d[k].Value = "" )

\* live has the desired key with the desired value and one more key: the
\* comparator returned false and the run goes on to put the policy
C27_Witness ==
    \E i \in DOMAIN proc :
        LET p == proc[i] IN
        /\ DimensionCases(p)
        /\ ~p.calls[Len(p.calls)].res
        /\ p.pc = "checkExists"
        /\ DimensionsOf(p.policyInput[1]) = << [Name |-> "k1", Value |-> "v1"] >>
        /\ Len(DimensionsOf(livePolicies["p2"][1])) = 2
        /\ DesiredWithinLive(DimensionsOf(livePolicies["p2"][1]),
                             DimensionsOf(p.policyInput[1]))

-----------------------------------------------------------------------------
(* C28 *)

\* the calls of a run made while it processed position idx of the policy list
CallsAt(p, idx) == { j \in DOMAIN p.calls : p.calls[j].idx = idx }

\* the run compared the policy at position idx, no call it made for the position
\* failed, and it has left the position
Processed(p, idx) ==
    /\ Enabled(p)
    /\ idx \in DOMAIN p.policies
    /\ \E j \in CallsAt(p, idx) : p.calls[j].fn = "compareScalingPolicy"
    /\ \A j \in CallsAt(p, idx) : p.calls[j].ok
    /\ p.idx > idx \/ Exited(p)

\* the policy at position idx was not live when the run compared it
NewPolicyAt(p, idx) ==
    \E j \in CallsAt(p, idx) :
        p.calls[j].fn = "compareScalingPolicy" /\ p.calls[j].found = 0

AlarmPutsAt(p, idx) ==
    { j \in CallsAt(p, idx) : p.calls[j].op = "PutMetricAlarm" }

\* an alarm of the name was live before the run came to position idx: alarms are
\* not deleted by an enable run, so it is one that is live and was not put here
AlarmExistedAt(p, idx) ==
    /\ liveAlarms[AlarmNameOf(p.policies[idx].PolicyName)] # <<>>
    /\ AlarmPutsAt(p, idx) = {}

\* C28: for a processed policy of the list the run issues PutMetricAlarm for
\* {cluster}-{service}-{policy_name} iff the policy is a StepScaling policy with
\* metric name and namespace, was not live before the run put it, and no alarm of
\* the name existed; the put follows an alarm check that found nothing; a policy
\* of another type or without metric causes no alarm read and no alarm write.
C28_AlarmIffNewStepPolicyWithMetric ==
    \A i \in DOMAIN proc :
        LET p == proc[i] IN
        \A idx \in DOMAIN p.policies :
            LET d == p.policies[idx] IN
            /\ Processed(p, idx) =>
                  ( AlarmPutsAt(p, idx) # {}
                      <=> /\ d.PolicyType = "StepScaling"
                          /\ HasMetric(d)
                          /\ NewPolicyAt(p, idx)
                          /\ ~AlarmExistedAt(p, idx) )
            /\ \A j \in AlarmPutsAt(p, idx) :
                  /\ p.calls[j].name = AlarmNameOf(d.PolicyName)
                  /\ p.calls[j - 1].fn = "checkCloudWatchAlarm"
                  /\ p.calls[j - 1].name = AlarmNameOf(d.PolicyName)
                  /\ p.calls[j - 1].ok /\ p.calls[j - 1].found = 0
            /\ ( Enabled(p) /\ ~(d.PolicyType = "StepScaling" /\ HasMetric(d)) )
                  => \A j \in CallsAt(p, idx) :
                        p.calls[j].op \notin {"DescribeAlarms", "PutMetricAlarm"}

-----------------------------------------------------------------------------
(* C29 *)

\* the names a disable run has probed so far with fn, in the order of the calls
ProbedBy(p, fn) ==
    LET probes == SelectSeq(p.calls, LAMBDA c : c.fn = fn)
    IN  [ j \in DOMAIN probes |-> probes[j].name ]

IsPrefix(s, t) == Len(s) <= Len(t) /\ \A j \in DOMAIN s : s[j] = t[j]

\* the position at which an element occurs first
FirstAt(s, x) == CHOOSE j \in DOMAIN s : s[j] = x /\ \A m \in 1..(j - 1) : s[m] # x

\* out lists the distinct elements of in, each once, in the order in which they
\* occur first
IsFirstSeenOf(out, in) ==
    /\ \A a, b \in DOMAIN out : out[a] = out[b] => a = b
    /\ { out[a] : a \in DOMAIN out } = { in[j] : j \in DOMAIN in }
    /\ \A a, b \in DOMAIN out : a < b => FirstAt(in, out[a]) < FirstAt(in, out[b])

\* the 4 built-in alarm names, then one name for each payload policy that has
\* both metric fields
ExpectedAlarmProbes ==
    LET withMetric == SelectSeq(EffectiveList,
                                LAMBDA d : d.MetricName # "" /\ d.MetricNamespace # "")
    IN  << "c-s-cpu-high", "c-s-cpu-low", "c-s-mem-high", "c-s-mem-low" >>
          \o [ j \in DOMAIN withMetric |-> "c-s-" \o withMetric[j].PolicyName ]

\* the 2 built-in policy names, then the payload policy names
PolicyNameInput ==
    << "c-s-scale-out", "c-s-scale-in" >>
      \o [ j \in DOMAIN EffectiveList |-> EffectiveList[j].PolicyName ]

\* the run is past its alarm probes, past its policy probes
PastAlarmProbes(p) ==
    \/ p.pc \in {"deleteAlarms", "probePolicy", "deletePolicy", "deregister"}
    \/ \E j \in DOMAIN p.calls :
          p.calls[j].op = "DeleteAlarms" \/ p.calls[j].fn = "checkScalingPolicy"

PastPolicyProbes(p) ==
    \/ p.pc \in {"deletePolicy", "deregister"}
    \/ \E j \in DOMAIN p.calls :
          p.calls[j].op \in {"DeleteScalingPolicy", "DeregisterScalableTarget"}

\* C29: a disable run probes, in this order, the 4 built-in alarm names and the
\* alarm name of each payload policy with both metric fields; then the 2 built-in
\* policy names and the payload policy names, each name once, in first-seen order.
C29_TeardownCandidates ==
    \A i \in DOMAIN proc :
        LET p == proc[i] IN
        Disabling(p) =>
            /\ IsPrefix(ProbedBy(p, "checkCloudWatchAlarm"), ExpectedAlarmProbes)
            /\ PastAlarmProbes(p)
                  => ProbedBy(p, "checkCloudWatchAlarm") = ExpectedAlarmProbes
            /\ \E m \in 0..Len(PolicyNameInput) :
                  IsFirstSeenOf(ProbedBy(p, "checkScalingPolicy"),
                                SubSeq(PolicyNameInput, 1, m))
            /\ PastPolicyProbes(p)
                  => IsFirstSeenOf(ProbedBy(p, "checkScalingPolicy"), PolicyNameInput)

\* a disable run on the list of the built-in scale-in policy's name without metric
\* fields and p1 with both has made all its probes: 5 alarm names and 3 policy names
C29_Witness ==
    \E i \in DOMAIN proc :
        LET p == proc[i] IN
        /\ Disabling(p) /\ PastPolicyProbes(p)
        /\ EffectiveList = << NamedPolicy(ScaleInName, <<"", "">>),
                              NamedPolicy("p1", <<"CPUUtilization", "AWS/ECS">>) >>
        /\ ProbedBy(p, "checkCloudWatchAlarm")
             = << "c-s-cpu-high", "c-s-cpu-low", "c-s-mem-high", "c-s-mem-low",
                  "c-s-p1" >>
        /\ ProbedBy(p, "checkScalingPolicy")
             = << "c-s-scale-out", "c-s-scale-in", "p1" >>

-----------------------------------------------------------------------------
(* C30 *)

MaxDedupLen == 3

\* the lists of at most MaxDedupLen names
DedupInputs ==
    UNION { [ 1..n -> PayloadNameSet ] : n \in 0..MaxDedupLen }

NoRepeats(s) == \A a, b \in DOMAIN s : s[a] = s[b] => a = b

\* deduplicate(x) has no repeated element, has the elements of x, keeps the order
\* of the first occurrences, and is left as it is by deduplicate
DedupLaw(x) ==
    LET out == deduplicate(x) IN
    /\ NoRepeats(out)
    /\ { out[a] : a \in DOMAIN out } = { x[j] : j \in DOMAIN x }
    /\ \A a, b \in DOMAIN out : a < b => FirstAt(x, out[a]) < FirstAt(x, out[b])
    /\ deduplicate(out) = out

\* C30: deduplicate returns the distinct elements of its input in order of first
\* occurrence and is idempotent, on every list of at most MaxDedupLen names (looked
\* at once, before the first run) and on the list of policy names each disable run
\* passes to it.
C30_DeduplicateFirstSeen ==
    /\ (\A i \in DOMAIN proc : proc[i].run = 0)
          => \A x \in DedupInputs : DedupLaw(x)
    /\ \A i \in DOMAIN proc :
          ( Disabling(proc[i]) /\ proc[i].policyNames # <<>> )
             => /\ DedupLaw(PolicyNameInput)
                /\ proc[i].policyNames = deduplicate(PolicyNameInput)

\* a disable run passed (scale-out, scale-in, p1, p2, p1) to deduplicate and got
\* (scale-out, scale-in, p1, p2)
C30_Witness ==
    \E i \in DOMAIN proc :
        /\ Disabling(proc[i])
        /\ PolicyNameInput = << ScaleOutName, ScaleInName, "p1", "p2", "p1" >>
        /\ proc[i].policyNames = << ScaleOutName, ScaleInName, "p1", "p2" >>

-----------------------------------------------------------------------------
(* C31 *)

\* the alarm probes of a run that failed
FailedAlarmProbes(p) ==
    { j \in DOMAIN p.calls : p.calls[j].fn = "checkCloudWatchAlarm" /\ ~p.calls[j].ok }

\* the names of the alarm probes the run has made that succeeded and found the
\* alarm, in the order of the probes
FoundAlarms(p) ==
    LET hits == SelectSeq(p.calls, LAMBDA c :
                    c.fn = "checkCloudWatchAlarm" /\ c.ok /\ c.found > 0)
    IN  [ j \in DOMAIN hits |-> hits[j].name ]

\* no call of the run failed but alarm probes
OnlyAlarmProbesFailed(p) ==
    \A j \in DOMAIN p.calls : ~p.calls[j].ok => j \in FailedAlarmProbes(p)

\* C31: a failed alarm probe does not end a disable run; the DeleteAlarms batch
\* holds the names of the probes that succeeded and found the alarm, no more and
\* no less, so the failed probe adds no name and drops none; when nothing else
\* fails the run ends with exit code 0 after DeregisterScalableTarget, the alarms
\* found are deleted and every policy found is deleted.
C31_FailedAlarmProbeSkipped ==
    \A i \in DOMAIN proc :
        LET p == proc[i]
            n == Len(p.calls)
        IN
        ( Disabling(p) /\ FailedAlarmProbes(p) # {} ) =>
            /\ ( n \in FailedAlarmProbes(p) ) => ~Exited(p)
            /\ \A j \in AlarmDeletes(p) : p.calls[j].arg = FoundAlarms(p)
            /\ ( Exited(p) /\ OnlyAlarmProbesFailed(p) )
                  => /\ p.exit = "ok"
                     /\ p.calls[n].op = "DeregisterScalableTarget"
                     /\ liveTarget = <<>>
                     /\ FoundAlarms(p) # <<>> => AlarmDeletes(p) # {}
                     /\ \A m \in DOMAIN FoundAlarms(p) :
                           liveAlarms[FoundAlarms(p)[m]] = <<>>
                     /\ \A j \in DOMAIN p.calls :
                           ( p.calls[j].fn = "checkScalingPolicy" /\ p.calls[j].res )
                              => livePolicies[p.calls[j].name] = <<>>

\* a disable run whose probe of one alarm failed has deleted another alarm, then
\* a policy, has deregistered the target and ended with exit code 0
C31_Witness ==
    \E i \in DOMAIN proc :
        LET p == proc[i] IN
        /\ Disabling(p) /\ Exited(p) /\ p.exit = "ok"
        /\ FailedAlarmProbes(p) # {}
        /\ \E j \in AlarmDeletes(p) : p.calls[j].ok /\ p.calls[j].arg # <<>>
        /\ \E j \in DOMAIN p.calls :
              p.calls[j].op = "DeleteScalingPolicy" /\ p.calls[j].ok
        /\ p.calls[Len(p.calls)].op = "DeregisterScalableTarget"

-----------------------------------------------------------------------------
(* C32 *)

\* the five comparators and the read operation each of them calls
ComparatorRead ==
    [ checkScalableTarget |-> "DescribeScalableTargets",
      scalableTargetExists |-> "DescribeScalableTargets",
      checkScalingPolicy |-> "DescribeScalingPolicies",
      compareScalingPolicy |-> "DescribeScalingPolicies",
      checkCloudWatchAlarm |-> "DescribeAlarms" ]

ExistenceChecks == { "scalableTargetExists", "checkScalingPolicy", "checkCloudWatchAlarm" }

-----------------------------------------------------------------------------
(* C33 *)

\* the texts that are integers, the texts that are numbers, and their values
IntegerTexts == ( "3" :> 3 ) @@ ( "+3" :> 3 ) @@ ( "7" :> 7 )

NumberTexts ==
    IntegerTexts @@ ( "3.0" :> 3 ) @@ ( "80" :> 80 ) @@ ( "60" :> 60 )
                 @@ ( "85" :> 85 ) @@ ( "65" :> 65 )

\* the documented defaults of os.Args[7..14]
DocumentedDefaults == << 1, 10, 300, 300, 75, 65, 80, 70 >>

\* what argument k is documented to yield: its default when empty, its value when
\* it is a number of its kind (an integer for k <= 4), nothing otherwise
Documented(k) ==
    LET text == args.numeric[k]
        values == IF k <= 4 THEN IntegerTexts ELSE NumberTexts
    IN  IF text = "" THEN Some(DocumentedDefaults[k])
        ELSE IF text \in DOMAIN values THEN Some(values[text])
        ELSE Nil

Unparseable == \E k \in DOMAIN args.numeric : Documented(k) = Nil

\* the values main() holds, in the order of the arguments
HeldNumbers ==
    << args.minCap, args.maxCap, args.outCd, args.inCd,
       args.cpuOut, args.cpuIn, args.memOut, args.memIn >>

\* C33: an empty numeric argument yields its default and a parseable one its
\* value, without error; an unparseable one yields (0, error), and then every run
\* exits with an error without having issued a remote call; otherwise the values
\* are the ones the run writes.
C33_NumericDefaulting ==
    /\ \A k \in DOMAIN args.numeric :
          LET r == ParsedNumbers(args.numeric)[k] IN
          IF Documented(k) = Nil THEN r.err /\ r.val = 0
          ELSE ~r.err /\ r.val = Documented(k)[1] /\ HeldNumbers[k] = r.val
    /\ \A i \in DOMAIN proc :
          LET p == proc[i] IN
          /\ ( Unparseable /\ p.run > 0 )
                => /\ Exited(p) /\ p.exit = "fatal" /\ p.calls = <<>>
                   /\ \A h \in DOMAIN p.hist :
                         p.hist[h].exit = "fatal" /\ p.hist[h].writes = 0
          /\ ~Unparseable =>
                \A j \in DOMAIN p.calls :
                    LET c == p.calls[j] IN
                    /\ c.op = "RegisterScalableTarget"
                          => c.arg = << LiveTarget(Documented(1)[1], Documented(2)[1]) >>
                    /\ ( c.op = "PutScalingPolicy" /\ c.name = ScaleOutName )
                          => c.arg[1].StepScalingPolicyConfiguration[1].Cooldown
                               = Some(Documented(3)[1])
                    /\ ( c.op = "PutScalingPolicy" /\ c.name = ScaleInName )
                          => c.arg[1].StepScalingPolicyConfiguration[1].Cooldown
                               = Some(Documented(4)[1])
                    /\ ( c.op = "PutMetricAlarm" /\ c.name = AlarmNameOf("cpu-high") )
                          => c.arg[1].Threshold = Documented(5)[1]
                    /\ ( c.op = "PutMetricAlarm" /\ c.name = AlarmNameOf("cpu-low") )
                          => c.arg[1].Threshold = Documented(6)[1]
                    /\ ( c.op = "PutMetricAlarm" /\ c.name = AlarmNameOf("mem-high") )
                          => c.arg[1].Threshold = Documented(7)[1]
                    /\ ( c.op = "PutMetricAlarm" /\ c.name = AlarmNameOf("mem-low") )
                          => c.arg[1].Threshold = Documented(8)[1]

\* the second run on a min-capacity of "abc" has ended like the first: with an
\* error and without a remote call, the scalable target as it was
C33_Witness ==
    \E i \in DOMAIN proc :
        LET p == proc[i] IN
        /\ args.numeric[1] = "abc"
        /\ p.run = 2 /\ Exited(p) /\ p.exit = "fatal" /\ p.calls = <<>>
        /\ liveTarget = << LiveTarget(1, 10) >>

-----------------------------------------------------------------------------
(* C34 *)

\* a policy keeps the rule of PolicyDef: a target tracking policy has a
\* configuration with exactly one metric source, a step policy has step adjustments
WellFormed(d) ==
    /\ d.PolicyType = "TargetTrackingScaling" =>
          /\ d.TargetTrackingConfiguration # Nil
          /\ (d.TargetTrackingConfiguration[1].PredefinedMetricSpecification # "")
               # (d.TargetTrackingConfiguration[1].CustomMetricSpecification # Nil)
    /\ d.PolicyType = "StepScaling" => d.StepAdjustments # <<>>

\* C34: an enable run issues PutScalingPolicy for well-formed policies of its list
\* only; a run that has come to a policy that is not well-formed has not ended
\* with exit code 0.
C34_OnlyWellFormedPut ==
    \A i \in DOMAIN proc :
        LET p == proc[i] IN
        Enabled(p) =>
            /\ \A j \in DOMAIN p.calls :
                  ( p.calls[j].op = "PutScalingPolicy" /\ p.calls[j].idx > 0 )
                     => WellFormed(p.policies[p.calls[j].idx])
            /\ ( Exited(p) /\ p.exit = "ok" )
                  => \A k \in DOMAIN p.policies : WellFormed(p.policies[k])

-----------------------------------------------------------------------------
(* C35 *)

SeqRange(s) == { s[j] : j \in DOMAIN s }

\* the policy names and the alarm names an enable run may write: those of the
\* list, or those of the built-in template when the list is empty
DesiredPolicyNames ==
    IF EffectiveList # <<>> THEN { EffectiveList[j].PolicyName : j \in DOMAIN EffectiveList }
    ELSE { ScaleOutName, ScaleInName }

DesiredAlarmNames ==
    IF EffectiveList # <<>>
    THEN { AlarmNameOf(EffectiveList[j].PolicyName) : j \in DOMAIN EffectiveList }
    ELSE SeqRange(DefaultAlarmNames)

\* the names a disable run may delete
CandidatePolicyNames ==
    { ScaleOutName, ScaleInName }
      \cup { EffectiveList[j].PolicyName : j \in DOMAIN EffectiveList }

CandidateAlarmNames ==
    SeqRange(DefaultAlarmNames)
      \cup { AlarmNameOf(EffectiveList[j].PolicyName) : j \in DOMAIN EffectiveList }

EnableWrites == { "RegisterScalableTarget", "PutScalingPolicy", "PutMetricAlarm" }

\* the call a step has added to the log of a run
Added(i) == proc'[i].calls[Len(proc'[i].calls)]

Called(i) == Len(proc'[i].calls) = Len(proc[i].calls) + 1

\* C35: a step changes the target, a policy or an alarm only by a successful write
\* call of a run; an enable run writes by RegisterScalableTarget, PutScalingPolicy
\* and PutMetricAlarm only, to policy names of its effective set and to alarm names
\* derived from it; a disable run writes by DeleteAlarms, DeleteScalingPolicy and
\* DeregisterScalableTarget only, to names of its candidate sets; every other
\* policy and alarm is after the step what it was before.
C35_Frame ==
    [][ /\ \A i \in DOMAIN proc :
              Called(i) =>
                 /\ ( Added(i).op \in WriteOps /\ proc'[i].enabled = "true" )
                       => Added(i).op \in EnableWrites
                 /\ ( Added(i).op \in WriteOps /\ proc'[i].enabled # "true" )
                       => Added(i).op \notin EnableWrites
        /\ liveTarget' # liveTarget =>
              \E i \in DOMAIN proc :
                  /\ Called(i) /\ Added(i).ok
                  /\ Added(i).op \in {"RegisterScalableTarget", "DeregisterScalableTarget"}
        /\ \A n \in AllPolicyNames :
              livePolicies'[n] # livePolicies[n] =>
                 \E i \in DOMAIN proc :
                     /\ Called(i) /\ Added(i).ok /\ Added(i).name = n
                     /\ \/ /\ Added(i).op = "PutScalingPolicy"
                           /\ n \in DesiredPolicyNames
                        \/ /\ Added(i).op = "DeleteScalingPolicy"
                           /\ n \in CandidatePolicyNames
                           /\ livePolicies'[n] = <<>>
        /\ \A n \in AllAlarmNames :
              liveAlarms'[n] # liveAlarms[n] =>
                 \E i \in DOMAIN proc :
                     /\ Called(i) /\ Added(i).ok
                     /\ \/ /\ Added(i).op = "PutMetricAlarm"
                           /\ Added(i).name = n
                           /\ n \in DesiredAlarmNames
                        \/ /\ Added(i).op = "DeleteAlarms"
                           /\ n \in SeqRange(Added(i).arg)
                           /\ n \in CandidateAlarmNames
                           /\ liveAlarms'[n] = <<>>
      ]_vars

\* an enable run on the policy d1 has ended with exit code 0 while the policy p1
\* and the alarm of p1, which are not in its list, are live as before the run
C35_Witness ==
    \E i \in DOMAIN proc :
        LET p == proc[i] IN
        /\ Enabled(p) /\ Exited(p) /\ p.exit = "ok" /\ p.hist = <<>>
        /\ DesiredPolicyNames = { "d1" }
        /\ \E j \in DOMAIN p.calls : p.calls[j].op = "PutScalingPolicy" /\ p.calls[j].ok
        /\ livePolicies["p1"] = << LivePolicy(StepPolicyInput(PA)) >>
        /\ liveAlarms[AlarmNameOf("p1")] = << OldAlarm(AlarmNameOf("p1")) >>

-----------------------------------------------------------------------------
(* C36 *)

NothingLive ==
    /\ liveTarget = <<>>
    /\ \A n \in AllPolicyNames : livePolicies[n] = <<>>
    /\ \A n \in AllAlarmNames : liveAlarms[n] = <<>>

\* run h of the history was an enable run, a disable run, none of whose calls
\* failed
FailureFreeRun(p, h, enabled) ==
    /\ h \in DOMAIN p.hist
    /\ (p.hist[h].enabled = "true") = enabled
    /\ ~p.hist[h].callFailed

DeleteOps == { "DeleteAlarms", "DeleteScalingPolicy", "DeregisterScalableTarget" }

\* the round trip of the runs that end with exit code 0: the enable run, the
\* disable run after it and a second disable run
RoundTripOnExitZero ==
    \A i \in DOMAIN proc :
        LET p == proc[i] IN
        /\ ( /\ Len(p.hist) = 1 /\ FailureFreeRun(p, 1, TRUE) /\ p.hist[1].exit = "ok"
             /\ Disabling(p) /\ Exited(p) /\ p.exit = "ok" )
              => NothingLive
        /\ ( /\ Len(p.hist) = 2 /\ FailureFreeRun(p, 1, TRUE) /\ p.hist[1].exit = "ok"
             /\ FailureFreeRun(p, 2, FALSE) /\ p.hist[2].exit = "ok"
             /\ Disabling(p) )
              => /\ NothingLive
                 /\ \A j \in DOMAIN p.calls : p.calls[j].op \notin DeleteOps
                 /\ Len(p.calls) <= 1

\* an enable run on the policies p2 and p1, a disable run that deleted what it
\* made, and a second disable run that ended after its one read
RoundTripDone ==
    \E i \in DOMAIN proc :
        LET p == proc[i] IN
        /\ Len(p.hist) = 2 /\ FailureFreeRun(p, 1, TRUE) /\ FailureFreeRun(p, 2, FALSE)
        /\ p.hist[1].writes = 4 /\ p.hist[2].writes = 4
        /\ Len(EffectiveList) = 2
        /\ Disabling(p) /\ Exited(p) /\ p.exit = "ok" /\ Len(p.calls) = 1
        /\ NothingLive

-----------------------------------------------------------------------------
(* C37 *)

\* the alarm named a is live and the policy whose ARN is its action is not
Dangling(a) ==
    /\ liveAlarms[a] # <<>>
    /\ \E n \in AllPolicyNames :
          /\ liveAlarms[a][1].AlarmActions = << PolicyARN(n) >>
          /\ livePolicies[n] = <<>>

\* the probe of alarm a has failed in the disable run p
SkippedProbe(p, a) ==
    /\ Disabling(p)
    /\ \E j \in DOMAIN p.calls :
          /\ p.calls[j].op = "DescribeAlarms" /\ p.calls[j].name = a
          /\ ~p.calls[j].ok

\* C37 as stated: in every state reached from nothing live by enable and disable
\* runs on the same arguments, any of which may abort on a failed call, the policy
\* named in the action of every live alarm is live.
C37_NoDanglingAlarm == \A a \in AllAlarmNames : ~Dangling(a)

\* C37: from nothing live, through enable and disable runs on the same arguments,
\* any of which may abort on a failed call, a live alarm loses the policy named in
\* its action only in a disable run whose existence probe of that alarm has failed.
C37_DanglingOnlyAfterSkippedProbe ==
    [][ \A a \in AllAlarmNames :
          (Dangling(a)' /\ ~Dangling(a))
             => \E i \in DOMAIN proc : SkippedProbe(proc[i], a) ]_vars

\* a disable run has deleted the policy p1 of the live alarm c-s-p1, whose probe
\* had failed
C37_Witness ==
    \E i \in DOMAIN proc :
        /\ SkippedProbe(proc[i], AlarmNameOf("p1"))
        /\ Dangling(AlarmNameOf("p1"))
        /\ \E j \in DOMAIN proc[i].calls :
              /\ proc[i].calls[j].op = "DeleteScalingPolicy"
              /\ proc[i].calls[j].name = "p1" /\ proc[i].calls[j].ok

-----------------------------------------------------------------------------
(* C38 *)

\* every invocation has run and ended
AllExited == \A i \in DOMAIN proc : proc[i].run = 1 /\ Exited(proc[i])

\* C38: two enable runs on the same arguments at the same time, their remote calls
\* interleaved in any way and none failing, both end with exit code 0, and the
\* target, the policies and the alarms are then the ones a single enable run makes.
C38_ConcurrentEnable ==
    (AllExited /\ \A i \in DOMAIN proc : Enabled(proc[i])) =>
        /\ \A i \in DOMAIN proc : proc[i].exit = "ok"
        /\ AsAfterOneRun

\* both runs have ended; run 2 found no scalable target, so it started before run 1
\* registered one, and it put no policy, so it compared after run 1 had put its own
C38_Witness ==
    /\ AllExited /\ DOMAIN proc = ConcurrentProcs
    /\ \A i \in DOMAIN proc : Enabled(proc[i])
    /\ \E j \in DOMAIN proc[2].calls :
          /\ proc[2].calls[j].op = "DescribeScalableTargets"
          /\ proc[2].calls[j].found = 0
    /\ \A j \in DOMAIN proc[2].calls : proc[2].calls[j].op # "PutScalingPolicy"
    /\ \E j \in DOMAIN proc[1].calls :
          proc[1].calls[j].op = "PutScalingPolicy" /\ proc[1].calls[j].name = "p1"
    /\ \E j \in DOMAIN proc[1].calls : proc[1].calls[j].op = "PutMetricAlarm"

-----------------------------------------------------------------------------
(* C39 *)

\* the first remote call of run p is made by fn
FirstCallBy(p, fn) == p.calls # <<>> => p.calls[1].fn = fn

\* the run p found the scalable target registered
FoundTarget(p) ==
    /\ p.calls # <<>>
    /\ p.calls[1].op = "DescribeScalableTargets" /\ p.calls[1].ok
    /\ p.calls[1].res

\* C39: a run takes the enable path (checkScalableTarget first, no delete and no
\* deregister call) when os.Args[6] is exactly "true", and the disable path
\* (scalableTargetExists first, no register and no put call) for every other
\* value; a run of the disable path that found the target registered and ended with
\* exit code 0 without a failed call leaves no target, no policy and no alarm live.
C39_PathByEnabledArgument ==
    \A i \in DOMAIN proc :
        LET p == proc[i] IN
        p.pc # "idle" =>
          /\ p.enabled = "true" =>
                /\ FirstCallBy(p, "checkScalableTarget")
                /\ \A j \in DOMAIN p.calls : p.calls[j].op \notin DeleteOps
          /\ p.enabled # "true" =>
                /\ FirstCallBy(p, "scalableTargetExists")
                /\ \A j \in DOMAIN p.calls : p.calls[j].op \notin EnableWrites
                /\ ( /\ Exited(p) /\ p.exit = "ok" /\ ~CallFailed(p)
                     /\ FoundTarget(p) )
                      => /\ NothingLive
                         /\ p.calls[Len(p.calls)].op = "DeregisterScalableTarget"

\* a run with os.Args[6] = "True", after an enable run that made the policy p1 and
\* its alarm, has deleted both and deregistered the target
C39_Witness ==
    \E i \in DOMAIN proc :
        LET p == proc[i] IN
        /\ p.enabled = "True" /\ Exited(p) /\ p.exit = "ok"
        /\ Len(p.hist) = 1 /\ p.hist[1].enabled = "true" /\ p.hist[1].writes = 3
        /\ \E j \in DOMAIN p.calls : p.calls[j].op = "DeleteAlarms" /\ p.calls[j].ok
        /\ \E j \in DOMAIN p.calls :
              p.calls[j].op = "DeleteScalingPolicy" /\ p.calls[j].name = "p1"
        /\ p.calls[Len(p.calls)].op = "DeregisterScalableTarget"
        /\ NothingLive

====
